---- MODULE Spec2Model ----
(***************************************************************************)
(* A model of the garden protocol: the event codec (garden-protocol        *)
(* post.rs, comment.rs, reaction.rs, lib.rs), the in-memory index          *)
(* projection (garden-protocol index/mod.rs, handler.rs), the SQL-backed   *)
(* index of the server (garden-server database.rs), the account vault of   *)
(* the client (garden-client accounts.rs, ui/login_window.rs) and the      *)
(* publish path (garden-protocol handler.rs).                              *)
(*                                                                         *)
(* The specifications of the module:                                       *)
(*   SpecCodec   encodes and decodes one event drawn from a bounded set,   *)
(*               or hands received bytes to a decoder, or a string to      *)
(*               Tag::new;                                                 *)
(*   Spec        runs Handler::update / Index::update against a storage    *)
(*               whose chain of blocks grows, shrinks and is replaced;     *)
(*   SpecDb      runs Database::sync against such a storage;               *)
(*   SpecVault   creates, deletes and unlocks accounts;                    *)
(*   SpecPublish calls Handler::send_post and Handler::send_comment;       *)
(*   SpecRead    calls PostIndex::read and CommentIndex::read;             *)
(*   SpecShared  runs Handler::update beside the client's QueryPosts       *)
(*               handler, which reads the same index;                      *)
(*   SpecLoop    runs the client's worker, which handles the Update input  *)
(*               of its tick thread (SpecLoopLive adds fairness);          *)
(*   SpecClient  runs the worker and the main window of the client.        *)
(***************************************************************************)
EXTENDS Integers, Sequences, FiniteSets, TLC

VARIABLES
    \* ---- event codec (SpecCodec)
    cev,        \* the event handed to the encoder
    cvia,       \* "post": PostEvent codec called directly, "events": the
                \* envelope, "rawpost" / "rawcomment" / "rawreaction" /
                \* "rawevents": a decoder handed received bytes, "tag":
                \* Tag::new handed a string
    cbytes,     \* the encoded bytes
    cdec,       \* the decoder's result
    cstep,      \* "new", "encoded", "decoded"
    chint,      \* what size_hint() answered, once it was asked
    \* ---- in-memory index (Spec)
    chain,      \* the storage: block ids along next_block, root first
    attached,   \* whether the node holds a storage for the handler's address
    index,      \* Index { root_block, last_block, posts, comments }
    pc,         \* "idle", or "loop" while Index::update walks the blocks
    result,     \* what the last Handler::update returned: "none", "ok", "err"
    startIndex, \* the index as it was when the running/last update was called
    startResult,\* `result` as it was when the running/last update was called
    didReset,   \* whether the running/last update took the reset branch
    failedAt,   \* the block whose projection made the last update fail, or 0
    \* ---- SQL-backed index (SpecDb)
    schain,     \* the server's storage history: block ids, root first
    db,         \* the sqlite tables
    syncResult, \* what the last sync() returned: "none", "ok", "err"
    syncStart,  \* the tables as they were when the last sync() was called
    \* ---- account vault of the client (SpecVault)
    accounts,   \* the login window's account list; each entry also keeps the
                \* signing key and password its account was created from
    vfile,      \* the accounts file: a JSON array
    vdialog,    \* the account the password dialog was opened for
    vres,       \* the last call of Account::signing_key and what it returned
    vtorn,      \* whether the process died inside std::fs::write, which left
                \* the accounts file cut short
    \* ---- publish path (SpecPublish)
    outbox,     \* what node.send_message was handed, in order
    pubCall,    \* the last send_post / send_comment call
    pubResult,  \* what it returned
    pubCount,   \* how many such calls were made
    \* ---- reads through the index (SpecRead)
    rcall,      \* the last PostIndex::read / CommentIndex::read and its result
    \* ---- the client's QueryPosts handler, a reader of the index (SpecShared)
    qpc,        \* "idle", "copy" while it iterates index().posts(), "resolve"
                \* while it calls read_post for the copied entries
    qguard,     \* whether it holds the RwLockReadGuard of Handler::index()
    qseen,      \* the index as it was when the guard was taken
    qsince,     \* the since_message of the query
    qcopy,      \* the copied PostIndex entries not resolved yet
    qemit,      \* what the last read_post made the handler output, if anything
    \* ---- the client's worker thread (SpecLoop, SpecClient)
    wq,         \* the inputs sent to the worker and not handled yet, in order
    walive,     \* whether the worker thread still handles inputs
    frozen,     \* whether the storage has stopped changing and failing
    \* ---- the client's main window (SpecClient)
    mq,         \* the inputs sent to the main window and not handled yet
    shown,      \* posts_factory: the displayed posts, the front one first
    \* ---- the server's posts() iterator (SpecDb)
    piter       \* the PostsIter in use: curr_id, what it yielded so far, and
                \* how many rows v1_posts held when it was created and when
                \* next() was first called

codecVars == <<cev, cvia, cbytes, cdec, cstep, chint>>
indexVars == <<chain, attached, index, pc, result, startIndex, startResult,
               didReset, failedAt>>
dbVars    == <<schain, db, syncResult, syncStart>>
vaultVars == <<accounts, vfile, vdialog, vres>>
pubVars   == <<outbox, pubCall, pubResult, pubCount>>
readVars  == <<rcall>>
iterVars  == <<piter>>
crashVars == <<vtorn>>
queryVars == <<qpc, qguard, qseen, qsince, qcopy, qemit>>
workerVars == <<wq, walive, frozen>>
windowVars == <<mq, shown>>
clientVars == <<vaultVars, crashVars, pubVars, readVars, iterVars, queryVars,
                workerVars, windowVars>>
exceptVaultFile == <<codecVars, indexVars, dbVars, pubVars, readVars, iterVars,
                     queryVars, workerVars, windowVars>>
exceptClient == <<codecVars, dbVars, vaultVars, crashVars, pubVars, readVars,
                  iterVars>>
exceptVault == <<exceptVaultFile, crashVars>>
exceptWorker == <<codecVars, dbVars, vaultVars, crashVars, pubVars, readVars,
                  iterVars, queryVars, windowVars>>
exceptQuery == <<codecVars, dbVars, vaultVars, crashVars, pubVars, readVars,
                 iterVars,
        workerVars, windowVars>>
exceptPublish == <<codecVars, indexVars, dbVars, vaultVars, crashVars, readVars,
                   iterVars, queryVars,
        workerVars, windowVars>>
exceptRead == <<codecVars, indexVars, dbVars, vaultVars, crashVars, pubVars,
                iterVars, queryVars,
        workerVars, windowVars>>
exceptIter == <<codecVars, indexVars, dbVars, vaultVars, crashVars, pubVars,
                readVars, queryVars,
        workerVars, windowVars>>
vars      == <<codecVars, indexVars, dbVars, clientVars>>

-----------------------------------------------------------------------------
(* Bounds of the model.                                                    *)

\* Width of a flowerpot Hash in bytes (Hash::SIZE), scaled down.
HashSize == 2
\* Longest enumerated content, in bytes.
MaxContentLen == 2
\* Longest enumerated tag, in bytes.
MaxTagLen == 3
\* Most tags of an enumerated post.
MaxTags == 2
\* Length of the one long content, whose length needs both bytes of the u16.
LongContentLen == 300
\* Most entries of the posts list at which an update is still started.
MaxList == 3
\* Longest received buffer handed to a decoder, in bytes.
MaxRawLen == 5
\* Longest enumerated string handed to Tag::new, in bytes.
MaxTagCandLen == 4
\* Width of a SigningKey in bytes (SigningKey::SIZE), scaled down.
KeySize == 2
\* Most accounts of the login window's list.
MaxAccounts == 2
\* Most send_post / send_comment calls of a run.
MaxSends == 3
\* the longest storage handed to PostIndex::read / CommentIndex::read
MaxChainLen == 3
\* the most ticks that wait in a queue
MaxQueue == 2

(* Program constants.                                                      *)
U16Max == 65535
U8Max == 255
V1_POST == 0
V1_COMMENT == 1
V1_REACTION == 2

-----------------------------------------------------------------------------
(* Helpers.                                                                *)

Min(a, b) == IF a < b THEN a ELSE b

SeqsUpTo(S, n) == UNION {[1..k -> S] : k \in 0..n}

IsPrefix(s, t) == Len(s) <= Len(t) /\ SubSeq(t, 1, Len(s)) = s

\* Option and Result values.
None == [some |-> FALSE]
Some(v) == [some |-> TRUE, val |-> v]
Ok(v) == [ok |-> TRUE, val |-> v]
Err(e) == [ok |-> FALSE, err |-> e]
\* An index out of range or a slice past the end aborts the thread.
Panic == [ok |-> FALSE, err |-> "PANIC"]

-----------------------------------------------------------------------------
(* Text: String::from_utf8 and the tag grammar.                            *)

IsCont(b) == b \in 128..191

\* Length of the UTF-8 sequence a lead byte opens, 0 when it opens none.
LeadLen(b) ==
    IF b < 128 THEN 1
    ELSE IF b \in 194..223 THEN 2
    ELSE IF b \in 224..239 THEN 3
    ELSE IF b \in 240..244 THEN 4
    ELSE 0

SecondOk(lead, b) ==
    CASE lead = 224 -> b \in 160..191
      [] lead = 237 -> b \in 128..159
      [] lead = 240 -> b \in 144..191
      [] lead = 244 -> b \in 128..143
      [] OTHER -> IsCont(b)

\* String::from_utf8(bytes).is_ok()
Utf8Valid(s) ==
    /\ Len(s) > 0 => ~IsCont(s[1])
    /\ \A i \in 1..Len(s) :
         ~IsCont(s[i]) =>
           LET k == LeadLen(s[i]) IN
             /\ k > 0
             /\ i + k - 1 <= Len(s)
             /\ k >= 2 => SecondOk(s[i], s[i + 1])
             /\ \A j \in (i + 2)..(i + k - 1) : IsCont(s[j])
             /\ i + k <= Len(s) => ~IsCont(s[i + k])

\* [a-z0-9]
Alnum(b) == b \in 97..122 \/ b \in 48..57
\* [a-z0-9\-]
AlnumDash(b) == Alnum(b) \/ b = 45

\* TAG_REGEX.is_match:
\* ^[a-z0-9]{1,255}$|^[a-z0-9]{1,255}[a-z0-9\-]{0,255}[a-z0-9]{1,255}$
TagRegexMatchFirstBranch(s) ==
    /\ Len(s) \in 1..255
    /\ \A i \in 1..Len(s) : Alnum(s[i])
TagRegexMatch(s) ==
    LET n == Len(s) IN
    \/ /\ n \in 1..255
       /\ \A i \in 1..n : Alnum(s[i])
    \/ \E p \in 1..Min(255, n) : \E q \in 1..Min(255, n) :
         /\ p + q <= n
         /\ n - p - q <= 255
         /\ \A i \in 1..p : Alnum(s[i])
         /\ \A i \in (p + 1)..(n - q) : AlnumDash(s[i])
         /\ \A i \in (n - q + 1)..n : Alnum(s[i])

\* Content::new
ContentNew(s) == IF Len(s) > U16Max THEN None ELSE Some(s)

\* Tag::new
TagNew(s) ==
    IF ~(Len(s) \in 1..U8Max) \/ ~TagRegexMatch(s) THEN None ELSE Some(s)

\* PostEvent::new
PostNew(content, tags) ==
    IF Len(tags) > U8Max THEN None
    ELSE Some([content |-> content, tags |-> tags])

\* CommentEvent::new
CommentNew(ref, content) == [ref_message_hash |-> ref, content |-> content]

\* ReactionEvent::new
ReactionNew(ref, reaction) == [ref_address |-> ref, reaction |-> reaction]

-----------------------------------------------------------------------------
(* The codec.                                                              *)

\* u16::to_le_bytes
U16ToBe(n) == <<(n \div 256) % 256, n % 256>>
U16ToLe(n) == <<n % 256, (n \div 256) % 256>>
\* u16::from_le_bytes
U16FromBe(lo, hi) == 256 * lo + hi
U16FromLe(lo, hi) == lo + 256 * hi

\* The loop over the tags of PostEvent::to_bytes.
RECURSIVE TagsToBytesNoLen(_)
TagsToBytesNoLen(tags) ==
    IF tags = <<>> THEN <<>>
    ELSE Head(tags) \o TagsToBytesNoLen(Tail(tags))

RECURSIVE TagsToBytes(_)
TagsToBytes(tags) ==
    IF tags = <<>> THEN <<>>
    ELSE <<Len(Head(tags)) % 256>> \o Head(tags) \o TagsToBytes(Tail(tags))

\* PostEvent::to_bytes
PostToBytes(p) ==
    U16ToLe(Len(p.content) % 65536) \o p.content
        \o <<Len(p.tags) % 256>> \o TagsToBytes(p.tags)

\* The tag loop of PostEvent::from_bytes; off is tags_offset (0-based).
RECURSIVE ReadTags(_, _, _, _, _)
ReadTags(e, off, left, content, tags) ==
    IF left = 0 THEN Ok([content |-> content, tags |-> tags])
    ELSE IF off >= Len(e) THEN Panic
    ELSE LET tag_len == e[off + 1]
             from == off + 1
         IN IF from + tag_len > Len(e) THEN Panic
            ELSE LET tag == SubSeq(e, from + 1, from + tag_len) IN
                 IF ~Utf8Valid(tag) THEN Err("InvalidUnicode")
                 ELSE IF ~TagNew(tag).some THEN Err("InvalidTag")
                 ELSE ReadTags(e, from + tag_len, left - 1, content,
                               Append(tags, TagNew(tag).val))

\* PostEvent::from_bytes
PostFromBytes(e) ==
    LET n == Len(e) IN
    IF n < 3 THEN Err("SliceTooShort")
    ELSE LET content_len == U16FromLe(e[1], e[2]) IN
         IF n < content_len + 2 THEN Err("SliceTooShort")
         ELSE IF content_len + 2 >= n THEN Panic
         ELSE LET tags_amount == e[content_len + 3]
                  content == SubSeq(e, 3, content_len + 2)
              IN IF ~Utf8Valid(content) THEN Err("InvalidUnicode")
                 ELSE IF ~ContentNew(content).some THEN Err("InvalidContent")
                 ELSE ReadTags(e, content_len + 3, tags_amount,
                               ContentNew(content).val, <<>>)

\* CommentEvent::to_bytes
CommentToBytes(c) == c.ref_message_hash \o c.content

\* CommentEvent::from_bytes
CommentFromBytesShifted(e) ==
    IF Len(e) < HashSize THEN Err("SliceTooShort")
    ELSE LET content == SubSeq(e, HashSize + 2, Len(e)) IN
         IF ~Utf8Valid(content) THEN Err("InvalidUnicode")
         ELSE IF ~ContentNew(content).some THEN Err("InvalidContent")
         ELSE Ok(CommentNew(SubSeq(e, 1, HashSize), ContentNew(content).val))
CommentFromBytes(e) ==
    IF Len(e) < HashSize THEN Err("SliceTooShort")
    ELSE LET content == SubSeq(e, HashSize + 1, Len(e)) IN
         IF ~Utf8Valid(content) THEN Err("InvalidUnicode")
         ELSE IF ~ContentNew(content).some THEN Err("InvalidContent")
         ELSE Ok(CommentNew(SubSeq(e, 1, HashSize), ContentNew(content).val))

\* Reaction::to_name, as bytes: "thumb_up", "thumb_down"
ReactionToName(r) ==
    CASE r = "ThumbUp"   -> <<116, 104, 117, 109, 98, 95, 117, 112>>
      [] r = "ThumbDown" -> <<116, 104, 117, 109, 98, 95, 100, 111, 119, 110>>

\* Reaction::from_str
ReactionFromStr(s) ==
    IF s = <<116, 104, 117, 109, 98, 95, 117, 112>> THEN Some("ThumbUp")
    ELSE IF s = <<116, 104, 117, 109, 98, 95, 100, 111, 119, 110>>
         THEN Some("ThumbDown")
    ELSE None

\* ReactionEvent::to_bytes
ReactionToBytes(r) == r.ref_address \o ReactionToName(r.reaction)

\* ReactionEvent::from_bytes
ReactionFromBytes(e) ==
    IF Len(e) < HashSize THEN Err("SliceTooShort")
    ELSE LET name == SubSeq(e, HashSize + 1, Len(e)) IN
         IF ~Utf8Valid(name) THEN Err("InvalidUnicode")
         ELSE IF ~ReactionFromStr(name).some THEN Err("InvalidReactionName")
         ELSE Ok(ReactionNew(SubSeq(e, 1, HashSize), ReactionFromStr(name).val))

\* PostEvent implements no size_hint: the default of the Event trait answers.
PostSizeHint(p) == None

\* CommentEvent::size_hint
CommentSizeHintNoHash(c) == Some(Len(c.content))
CommentSizeHint(c) == Some(HashSize + Len(c.content))

\* ReactionEvent::size_hint
ReactionSizeHint(r) == Some(HashSize + Len(ReactionToName(r.reaction)))

\* Events::Post(..), Events::Comment(..), Events::Reaction(..)
Events(variant, event) == [variant |-> variant, event |-> event]

\* Events::to_bytes
EventsToBytes(ev) ==
    CASE ev.variant = "Post" ->
           U16ToLe(V1_POST) \o PostToBytes(ev.event)
      [] ev.variant = "Comment" ->
           U16ToLe(V1_COMMENT) \o CommentToBytes(ev.event)
      [] ev.variant = "Reaction" ->
           U16ToLe(V1_REACTION) \o ReactionToBytes(ev.event)

\* event.to_bytes() on the event an Events value holds.
EventToBytes(ev) ==
    CASE ev.variant = "Post" -> PostToBytes(ev.event)
      [] ev.variant = "Comment" -> CommentToBytes(ev.event)
      [] ev.variant = "Reaction" -> ReactionToBytes(ev.event)

\* event.size_hint() on the event an Events value holds.
SizeHint(ev) ==
    CASE ev.variant = "Post" -> PostSizeHint(ev.event)
      [] ev.variant = "Comment" -> CommentSizeHint(ev.event)
      [] ev.variant = "Reaction" -> ReactionSizeHint(ev.event)

\* EventDecodeError::UnknownEvent(id)
UnknownEvent(id) == [ok |-> FALSE, err |-> "UnknownEvent", id |-> id]

\* The `?` on an inner decoder's result inside Events::from_bytes.
Wrap(variant, r) == IF r.ok THEN Ok(Events(variant, r.val)) ELSE r

\* Events::from_bytes
EventsFromBytes(e) ==
    IF Len(e) < 2 THEN Err("SliceTooShort")
    ELSE LET id == U16FromLe(e[1], e[2])
             body == SubSeq(e, 3, Len(e))
         IN CASE id = V1_POST -> Wrap("Post", PostFromBytes(body))
              [] id = V1_COMMENT -> Wrap("Comment", CommentFromBytes(body))
              [] id = V1_REACTION -> Wrap("Reaction", ReactionFromBytes(body))
              [] OTHER -> UnknownEvent(id)

-----------------------------------------------------------------------------
(* SpecCodec: one constructible event is encoded, then decoded.            *)

\* 'h', and the two bytes of U+00E0
ContentBytes == {104, 195, 160}
\* 'a' and '-'
TagBytes == {97, 45}

LongContent == [i \in 1..LongContentLen |-> 104]

\* The contents Content::new accepts (a String holds valid UTF-8).
Contents ==
    {s \in SeqsUpTo(ContentBytes, MaxContentLen) \cup {LongContent} :
        Utf8Valid(s) /\ ContentNew(s).some}

\* The tags Tag::new accepts.
Tags == {t \in SeqsUpTo(TagBytes, MaxTagLen) : Utf8Valid(t) /\ TagNew(t).some}

\* The post with content "hi" and the tags "a" and "b1".
ExamplePost == PostNew(<<104, 105>>, <<(<<97>>), (<<98, 49>>)>>).val

\* The posts PostEvent::new accepts.
Posts ==
    {PostNew(c, ts).val : <<c, ts>> \in
        {x \in Contents \X SeqsUpTo(Tags, MaxTags) : PostNew(x[1], x[2]).some}}
        \cup {ExamplePost}

HashSamples == [1..HashSize -> {0, 17}]

Comments == {CommentNew(h, c) : <<h, c>> \in HashSamples \X Contents}

Reactions ==
    {ReactionNew(h, r) : <<h, r>> \in HashSamples \X {"ThumbUp", "ThumbDown"}}

EventUniverse ==
    {Events("Post", p) : p \in Posts}
        \cup {Events("Comment", c) : c \in Comments}
        \cup {Events("Reaction", r) : r \in Reactions}

\* No event to encode: the run hands received bytes to a decoder, or a
\* string to Tag::new.
RawInput == [variant |-> "Raw"]

\* 0, 1, 2, 7, 'a', and the lead byte of a two-byte UTF-8 sequence
RawByteSet == {0, 1, 2, 7, 97, 195}

\* The byte buffers a decoder may be handed.
RawBuffers == SeqsUpTo(RawByteSet, MaxRawLen)

\* 'a', '0', '-', 'A', '\n'
TagCandBytes == {97, 48, 45, 65, 10}

\* Strings of 255 and 256 bytes: all 'a', and dashes between two 'a'.
LongTagCandidates ==
    {[i \in 1..n |-> 97] : n \in {255, 256}}
        \cup {[i \in 1..n |-> IF i \in {1, n} THEN 97 ELSE 45] : n \in {255, 256}}

\* The strings Tag::new may be handed.
TagCandidates ==
    SeqsUpTo(TagCandBytes, MaxTagCandLen) \cup LongTagCandidates
        \cup {<<195, 160>>, <<97, 195, 160, 97>>}

NotAsked == [asked |-> FALSE]

CodecIdle ==
    /\ cvia = "none"
    /\ cbytes = <<>>
    /\ cdec = None
    /\ cstep = "new"
    /\ chint = NotAsked

\* event.size_hint()
AskSizeHint ==
    /\ cev # RawInput
    /\ cstep # "decoded"
    /\ chint = NotAsked
    /\ chint' = [asked |-> TRUE, hint |-> SizeHint(cev)]
    /\ UNCHANGED <<cev, cvia, cbytes, cdec, cstep>>

\* Bytes arrive from outside and are kept for PostEvent::from_bytes.
ReceivePost(buf) ==
    /\ cev = RawInput
    /\ cstep = "new"
    /\ cbytes' = buf
    /\ cvia' = "rawpost"
    /\ cstep' = "encoded"
    /\ UNCHANGED <<cev, cdec, chint>>

\* Bytes arrive from outside and are kept for Events::from_bytes.
ReceiveEvents(buf) ==
    /\ cev = RawInput
    /\ cstep = "new"
    /\ cbytes' = buf
    /\ cvia' = "rawevents"
    /\ cstep' = "encoded"
    /\ UNCHANGED <<cev, cdec, chint>>

\* Bytes arrive from outside and are kept for CommentEvent::from_bytes.
ReceiveComment(buf) ==
    /\ cev = RawInput
    /\ cstep = "new"
    /\ cbytes' = buf
    /\ cvia' = "rawcomment"
    /\ cstep' = "encoded"
    /\ UNCHANGED <<cev, cdec, chint>>

\* Bytes arrive from outside and are kept for ReactionEvent::from_bytes.
ReceiveReaction(buf) ==
    /\ cev = RawInput
    /\ cstep = "new"
    /\ cbytes' = buf
    /\ cvia' = "rawreaction"
    /\ cstep' = "encoded"
    /\ UNCHANGED <<cev, cdec, chint>>

\* Tag::new(s)
TagNewCall(str) ==
    /\ cev = RawInput
    /\ cstep = "new"
    /\ cbytes' = str
    /\ cvia' = "tag"
    /\ cdec' = TagNew(str)
    /\ cstep' = "decoded"
    /\ UNCHANGED <<cev, chint>>

\* post.to_bytes()
EncodePost ==
    /\ cstep = "new"
    /\ cev.variant = "Post"
    /\ cbytes' = PostToBytes(cev.event)
    /\ cvia' = "post"
    /\ cstep' = "encoded"
    /\ UNCHANGED <<cev, cdec, chint>>

\* PostEvent::from_bytes(&bytes)
DecodePost ==
    /\ cstep = "encoded"
    /\ cvia \in {"post", "rawpost"}
    /\ cdec' = PostFromBytes(cbytes)
    /\ cstep' = "decoded"
    /\ UNCHANGED <<cev, cvia, cbytes, chint>>

\* CommentEvent::from_bytes(&bytes)
DecodeComment ==
    /\ cstep = "encoded"
    /\ cvia = "rawcomment"
    /\ cdec' = CommentFromBytes(cbytes)
    /\ cstep' = "decoded"
    /\ UNCHANGED <<cev, cvia, cbytes, chint>>

\* ReactionEvent::from_bytes(&bytes)
DecodeReaction ==
    /\ cstep = "encoded"
    /\ cvia = "rawreaction"
    /\ cdec' = ReactionFromBytes(cbytes)
    /\ cstep' = "decoded"
    /\ UNCHANGED <<cev, cvia, cbytes, chint>>

\* Events::from(event).to_bytes()
EncodeEvents ==
    /\ cev # RawInput
    /\ cstep = "new"
    /\ cbytes' = EventsToBytes(cev)
    /\ cvia' = "events"
    /\ cstep' = "encoded"
    /\ UNCHANGED <<cev, cdec, chint>>

\* Events::from_bytes(&bytes)
DecodeEvents ==
    /\ cstep = "encoded"
    /\ cvia \in {"events", "rawevents"}
    /\ cdec' = EventsFromBytes(cbytes)
    /\ cstep' = "decoded"
    /\ UNCHANGED <<cev, cvia, cbytes, chint>>

-----------------------------------------------------------------------------
(* The storage the index reads: flowerpot blocks and messages.  A block's  *)
(* hash fixes its content and its predecessor, so the blocks form a tree   *)
(* and a storage holds one path of it, root first.                         *)

\* A Hash whose bytes are all i.
HashOf(i) == [k \in 1..HashSize |-> i]
\* Hash::ZERO
ZERO == HashOf(0)

BlockIds == {1, 2, 3, 4, 5, 6, 7, 8, 9}
MsgIds == {11, 12, 13, 14, 15, 16, 17, 18, 19, 20, 21, 22}

\* The predecessor of a block, 0 for a root block.
Parent(b) ==
    CASE b = 1 -> 0
      [] b = 2 -> 1
      [] b = 3 -> 2
      [] b = 4 -> 1
      [] b = 5 -> 4
      [] b = 6 -> 0
      [] b = 7 -> 6
      [] b = 8 -> 2
      [] b = 9 -> 6

\* block.inline_messages(), as message ids in order.
BlockMsgs(b) ==
    CASE b = 1 -> <<11>>
      [] b = 2 -> <<12>>
      [] b = 3 -> <<13, 14>>
      [] b = 4 -> <<15, 16, 17>>
      [] b = 5 -> <<18>>
      [] b = 6 -> <<>>
      [] b = 7 -> <<19>>
      [] b = 8 -> <<20, 21>>
      [] b = 9 -> <<22>>

\* The event a message was created from; message 16 carries no garden event.
MsgEvent(m) ==
    CASE m = 11 -> Events("Post", PostNew(<<104>>, <<>>).val)
      [] m = 12 -> Events("Comment", CommentNew(HashOf(11), <<104>>))
      [] m = 13 -> Events("Reaction", ReactionNew(HashOf(11), "ThumbUp"))
      [] m = 14 -> Events("Post", PostNew(<<104, 104>>, <<(<<97>>)>>).val)
      [] m = 15 -> Events("Post", PostNew(<<>>, <<>>).val)
      [] m = 16 -> [variant |-> "Foreign"]
      [] m = 17 -> Events("Comment", CommentNew(HashOf(15), <<>>))
      [] m = 18 -> Events("Post", PostNew(<<104>>, <<(<<97>>), (<<97, 97>>)>>).val)
      [] m = 19 -> Events("Comment", CommentNew(HashOf(11), <<195, 160>>))
      [] m = 20 -> Events("Reaction", ReactionNew(HashOf(12), "ThumbDown"))
      [] m = 21 -> Events("Post", PostNew(<<104>>, <<(<<97>>), (<<97>>)>>).val)
      [] m = 22 -> Events("Post", PostNew(<<104>>, <<>>).val)

\* message.data(): message 16 has the unknown envelope tag 7.
MsgData(m) ==
    IF m = 16 THEN U16ToLe(7) \o <<0, 0, 0>> ELSE EventsToBytes(MsgEvent(m))

\* Events::from_bytes(message.data()), for every message.
MsgDecoded == [m \in MsgIds |-> EventsFromBytes(MsgData(m))]

\* The storages: every path of the block tree that starts at a root.
IsChain(c) ==
    /\ \A i \in 1..Len(c) : Parent(c[i]) = (IF i = 1 THEN 0 ELSE c[i - 1])

\* storage.root_block()
root_block(c) == IF c = <<>> THEN None ELSE Some(HashOf(c[1]))

\* storage.has_block(hash)
has_block(c, h) == \E i \in 1..Len(c) : HashOf(c[i]) = h

\* storage.next_block(hash): the root block follows Hash::ZERO.
next_block(c, h) ==
    IF h = ZERO THEN root_block(c)
    ELSE IF \E i \in 1..(Len(c) - 1) : HashOf(c[i]) = h
         THEN Some(HashOf(c[(CHOOSE i \in 1..(Len(c) - 1) : HashOf(c[i]) = h) + 1]))
         ELSE None

\* storage.read_block(hash), as the block's id
read_block(c, h) ==
    IF has_block(c, h)
    THEN Some(c[CHOOSE i \in 1..Len(c) : HashOf(c[i]) = h])
    ELSE None

\* storage.find_message(hash): the hash of the block that holds the message
find_message(c, h) ==
    IF \E i \in 1..Len(c) : \E k \in 1..Len(BlockMsgs(c[i])) :
           HashOf(BlockMsgs(c[i])[k]) = h
    THEN Some(HashOf(c[CHOOSE i \in 1..Len(c) :
                        \E k \in 1..Len(BlockMsgs(c[i])) :
                            HashOf(BlockMsgs(c[i])[k]) = h]))
    ELSE None

\* storage.read_message(hash), as the message's id
read_message(c, h) ==
    IF find_message(c, h).some
    THEN Some(CHOOSE m \in MsgIds : HashOf(m) = h)
    ELSE None

-----------------------------------------------------------------------------
(* Index::update, garden-protocol/src/index/mod.rs.                        *)

\* Index::default()
DefaultIndex ==
    [root_block |-> ZERO, last_block |-> ZERO, posts |-> <<>>, comments |-> <<>>]

PostIndex(bh, mh) == [block_hash |-> bh, message_hash |-> mh]

CommentIndex(bh, mh, ref) ==
    [block_hash |-> bh, message_hash |-> mh, ref_message_hash |-> ref]

\* The condition of the reset branch.
NeedsResetAlways(idx, c, root) == TRUE
NeedsResetRootOnly(idx, c, root) == idx.root_block # root
NeedsResetInverted(idx, c, root) ==
    idx.root_block # root \/ has_block(c, idx.last_block)
NeedsReset(idx, c, root) ==
    idx.root_block # root \/ ~has_block(c, idx.last_block)

\* The reset branch.
IndexReset(idx) ==
    [idx EXCEPT !.last_block = ZERO, !.posts = <<>>, !.comments = <<>>]

\* The loop over block.inline_messages(): the lists after it, and whether it
\* ran to the end (ok) or left through the `?` on Events::from_bytes.
RECURSIVE ProjectMsgsBreak(_, _, _, _)
ProjectMsgsBreak(bh, msgs, posts, comments) ==
    IF msgs = <<>> THEN [ok |-> TRUE, posts |-> posts, comments |-> comments]
    ELSE LET m == Head(msgs)
             r == MsgDecoded[m]
         IN IF ~r.ok
            THEN [ok |-> FALSE, posts |-> posts, comments |-> comments]
            ELSE CASE r.val.variant = "Post" ->
                        ProjectMsgsBreak(bh, Tail(msgs),
                            Append(posts, PostIndex(bh, HashOf(m))), comments)
                   [] r.val.variant = "Comment" ->
                        ProjectMsgsBreak(bh, Tail(msgs), posts,
                            Append(comments, CommentIndex(bh, HashOf(m),
                                r.val.event.ref_message_hash)))
                   [] OTHER ->
                        [ok |-> TRUE, posts |-> posts, comments |-> comments]

RECURSIVE ProjectMsgsSkip(_, _, _, _)
ProjectMsgsSkip(bh, msgs, posts, comments) ==
    IF msgs = <<>> THEN [ok |-> TRUE, posts |-> posts, comments |-> comments]
    ELSE LET m == Head(msgs)
             r == MsgDecoded[m]
         IN IF ~r.ok
            THEN ProjectMsgsSkip(bh, Tail(msgs), posts, comments)
            ELSE CASE r.val.variant = "Post" ->
                        ProjectMsgsSkip(bh, Tail(msgs),
                            Append(posts, PostIndex(bh, HashOf(m))), comments)
                   [] r.val.variant = "Comment" ->
                        ProjectMsgsSkip(bh, Tail(msgs), posts,
                            Append(comments, CommentIndex(bh, HashOf(m),
                                r.val.event.ref_message_hash)))
                   [] OTHER ->
                        ProjectMsgsSkip(bh, Tail(msgs), posts, comments)

RECURSIVE ProjectMsgs(_, _, _, _)
ProjectMsgs(bh, msgs, posts, comments) ==
    IF msgs = <<>> THEN [ok |-> TRUE, posts |-> posts, comments |-> comments]
    ELSE LET m == Head(msgs)
             r == MsgDecoded[m]
         IN IF ~r.ok
            THEN [ok |-> FALSE, posts |-> posts, comments |-> comments]
            ELSE CASE r.val.variant = "Post" ->
                        ProjectMsgs(bh, Tail(msgs),
                            Append(posts, PostIndex(bh, HashOf(m))), comments)
                   [] r.val.variant = "Comment" ->
                        ProjectMsgs(bh, Tail(msgs), posts,
                            Append(comments, CommentIndex(bh, HashOf(m),
                                r.val.event.ref_message_hash)))
                   [] OTHER ->
                        ProjectMsgs(bh, Tail(msgs), posts, comments)

\* The index after one turn of the block loop: the pushes stay, and
\* last_block moves to the block only when its messages all went through.
CheckpointAlways(idx, pr, h) ==
    [idx EXCEPT !.posts = pr.posts, !.comments = pr.comments, !.last_block = h]
Checkpoint(idx, pr, h) ==
    IF pr.ok
    THEN [idx EXCEPT !.posts = pr.posts, !.comments = pr.comments,
                     !.last_block = h]
    ELSE [idx EXCEPT !.posts = pr.posts, !.comments = pr.comments]

IndexIdle ==
    /\ chain = <<>>
    /\ attached = TRUE
    /\ index = DefaultIndex
    /\ pc = "idle"
    /\ result = "none"
    /\ startIndex = DefaultIndex
    /\ startResult = "none"
    /\ didReset = FALSE
    /\ failedAt = 0

\* Handler::update taking the lock without waiting for the readers.
CalledNoLock ==
    /\ pc = "idle"
    /\ Len(index.posts) <= MaxList
    /\ startIndex' = index
    /\ startResult' = result
    /\ failedAt' = 0

\* What every call of Handler::update does when it starts: index.write()
\* returns once no reader and no writer holds the lock.
Called ==
    /\ pc = "idle"
    /\ ~qguard
    /\ Len(index.posts) <= MaxList
    /\ startIndex' = index
    /\ startResult' = result
    /\ failedAt' = 0

\* Handler::update when map_storage finds no storage: Ok(()), index untouched.
UpdateDetached ==
    /\ Called
    /\ ~attached
    /\ result' = "nostorage"
    /\ didReset' = FALSE
    /\ UNCHANGED <<chain, attached, index, pc>>

\* storage.root_block()? or storage.has_block(..)? returns a StorageError:
\* update returns it before it has written anything.
UpdateEarlyStorageError ==
    /\ Called
    /\ attached
    /\ result' = "err_storage"
    /\ didReset' = FALSE
    /\ UNCHANGED <<chain, attached, index, pc>>

\* Index::update on an empty storage: Ok(()), index untouched.
UpdateEmpty ==
    /\ Called
    /\ attached
    /\ chain = <<>>
    /\ result' = "ok"
    /\ didReset' = FALSE
    /\ UNCHANGED <<chain, attached, index, pc>>

\* Index::update up to the block loop: the reset branch and root_block.
UpdateEnter ==
    /\ Called
    /\ attached
    /\ chain # <<>>
    /\ LET root == root_block(chain).val
           reset == NeedsReset(index, chain, root)
           idx == IF reset THEN IndexReset(index) ELSE index
       IN /\ index' = [idx EXCEPT !.root_block = root]
          /\ didReset' = reset
    /\ pc' = "loop"
    /\ result' = "running"
    /\ UNCHANGED <<chain, attached>>

\* storage.next_block(..)? or storage.read_block(..)? returns a StorageError.
UpdateLoopStorageError ==
    /\ pc = "loop"
    /\ pc' = "idle"
    /\ result' = "err_storage"
    /\ UNCHANGED <<chain, attached, index, startIndex, startResult, didReset,
                   failedAt>>

\* One turn of the block loop.
UpdateBlock ==
    /\ pc = "loop"
    /\ next_block(chain, index.last_block).some
    /\ LET hash == next_block(chain, index.last_block).val
           block == read_block(chain, hash).val
           pr == ProjectMsgs(hash, BlockMsgs(block), index.posts,
                             index.comments)
       IN /\ index' = Checkpoint(index, pr, hash)
          /\ pc' = IF pr.ok THEN "loop" ELSE "idle"
          /\ result' = IF pr.ok THEN "running" ELSE "err_event"
          /\ failedAt' = IF pr.ok THEN 0 ELSE block
    /\ UNCHANGED <<chain, attached, startIndex, startResult, didReset>>

\* The block loop ends: next_block returns None, update returns Ok(()).
UpdateDone ==
    /\ pc = "loop"
    /\ ~next_block(chain, index.last_block).some
    /\ pc' = "idle"
    /\ result' = "ok"
    /\ UNCHANGED <<chain, attached, index, startIndex, startResult, didReset,
                   failedAt>>

\* The node's storage gains the block b.
StorageAppend(b) ==
    /\ pc = "idle"
    /\ IsChain(Append(chain, b))
    /\ chain' = Append(chain, b)
    /\ result' = "none"
    /\ UNCHANGED <<attached, index, pc, startIndex, startResult, didReset,
                   failedAt>>

\* The node's storage loses every block after the k-th (all of them: k = 0).
StorageTruncate(k) ==
    /\ pc = "idle"
    /\ k < Len(chain)
    /\ chain' = SubSeq(chain, 1, k)
    /\ result' = "none"
    /\ UNCHANGED <<attached, index, pc, startIndex, startResult, didReset,
                   failedAt>>

\* The node drops, or gets back, the storage of the handler's address.
StorageDetach ==
    /\ pc = "idle"
    /\ attached
    /\ attached' = FALSE
    /\ UNCHANGED <<chain, index, pc, result, startIndex, startResult, didReset,
                   failedAt>>

StorageAttach ==
    /\ pc = "idle"
    /\ ~attached
    /\ attached' = TRUE
    /\ UNCHANGED <<chain, index, pc, result, startIndex, startResult, didReset,
                   failedAt>>

-----------------------------------------------------------------------------
(* The worker of the client's main window, garden-client/src/ui/           *)
(* main_window.rs: the thread started by init sends Update every five      *)
(* seconds, the worker handles its inputs one after the other.             *)

\* MainWindowHandlerWorkerInput::Update
UpdateInput == [type |-> "Update"]

\* The results of Handler::update that are an Err.
UpdateErrors == {"err_storage", "err_event"}

\* The Update handler with `.expect(..)` on the result of handler.update():
\* an error ends the worker thread.
WorkerAfterUpdateExpect(res) == res \notin UpdateErrors

\* `if let Err(err) = handler.update() { tracing::error!(..) }`: whatever
\* update returned, the worker goes on with its next input.
WorkerAfterUpdate(res) == TRUE

\* The worker after init and after SetHandler was handled.
WorkerIdle ==
    /\ wq = <<>>
    /\ walive = TRUE
    /\ frozen = FALSE

\* One turn of the loop of the thread that init started.
WorkerTick ==
    /\ Len(wq) < MaxQueue
    /\ wq' = Append(wq, UpdateInput)
    /\ UNCHANGED <<walive, frozen>>

\* The worker handles Update: the step `step` of Handler::update; the input
\* is done with when update has returned.
WorkerUpdate(step) ==
    /\ walive
    /\ wq # <<>>
    /\ Head(wq) = UpdateInput
    /\ step
    /\ wq' = IF pc' = "idle" THEN Tail(wq) ELSE wq
    /\ walive' = IF pc' = "idle" THEN WorkerAfterUpdate(result') ELSE walive
    /\ UNCHANGED frozen

\* From here on the storage neither changes nor fails.
Freeze ==
    /\ ~frozen
    /\ frozen' = TRUE
    /\ UNCHANGED <<wq, walive>>

\* MainWindowHandlerWorkerInput::QueryPosts { since_message }
QueryPostsInput(since) == [type |-> "QueryPosts", since |-> since]

\* MainWindowMsg::Update
WindowUpdateMsg == [type |-> "Update"]

\* MainWindowMsg::AddPost(post)
AddPostMsg(post) == [type |-> "AddPost", post |-> post]

\* The main window after init.
WindowIdle ==
    /\ mq = <<>>
    /\ shown = <<>>

\* One turn of the loop of the thread that MainWindow::init started.
WindowTick ==
    /\ Len(mq) < MaxQueue
    /\ mq' = Append(mq, WindowUpdateMsg)
    /\ UNCHANGED <<shown, wq>>

\* MainWindow::update, MainWindowMsg::Update: the worker is asked for the
\* posts after the one displayed in front.
WindowUpdate ==
    /\ mq # <<>>
    /\ Head(mq) = WindowUpdateMsg
    /\ Len(wq) < MaxQueue
    /\ Len(shown) <= MaxList
    /\ LET last_post == IF shown = <<>> THEN None
                        ELSE Some(shown[1].message_hash)
       IN wq' = Append(wq, QueryPostsInput(last_post))
    /\ mq' = Tail(mq)
    /\ UNCHANGED shown

\* MainWindow::update, MainWindowMsg::AddPost: push_front
WindowAddPost ==
    /\ mq # <<>>
    /\ Head(mq).type = "AddPost"
    /\ shown' = <<Head(mq).post>> \o shown
    /\ mq' = Tail(mq)
    /\ UNCHANGED wq

\* The worker handles QueryPosts: the step `step` of the handler; a post
\* that was read is sent to the main window as AddPost; the input is done
\* with when the handler has returned.
WorkerQuery(step) ==
    /\ walive
    /\ wq # <<>>
    /\ Head(wq).type = "QueryPosts"
    /\ step
    /\ mq' = IF qemit'.some THEN Append(mq, AddPostMsg(qemit'.val)) ELSE mq
    /\ wq' = IF qpc' = "idle" THEN Tail(wq) ELSE wq
    /\ UNCHANGED <<walive, frozen, shown>>

-----------------------------------------------------------------------------
(* PostIndex::read and CommentIndex::read, garden-protocol/src/index.      *)

\* transaction.sign().verify(hash): message 22 carries a bad signature.
MsgSigOk(m) == m # 22
\* The verifying key the signature of a message yields.
MsgAuthor(m) == m % 2
\* block.timestamp().unix_timestamp()
BlockTime(b) == 1000 + b

\* The structural variants of IndexReadError, each with the hash it carries.
NoBlockInStorage(h) == [ok |-> FALSE, err |-> "NoBlockInStorage", hash |-> h]
NoMessageInStorage(h) ==
    [ok |-> FALSE, err |-> "NoMessageInStorage", hash |-> h]
NoBlockWithMessage(h) ==
    [ok |-> FALSE, err |-> "NoBlockWithMessage", hash |-> h]
InvalidEventType(h) == [ok |-> FALSE, err |-> "InvalidEventType", hash |-> h]

\* PostIndex::read; serr: the storage answers the first call with an error.
PostRead(c, p, serr) ==
    IF serr THEN Err("Storage")
    ELSE IF ~read_block(c, p.block_hash).some
    THEN NoMessageInStorage(p.block_hash)
    ELSE IF ~read_message(c, p.message_hash).some
    THEN NoMessageInStorage(p.message_hash)
    ELSE LET block == read_block(c, p.block_hash).val
             message == read_message(c, p.message_hash).val
             ev == EventsFromBytes(MsgData(message))
         IN IF ~ev.ok THEN Err("Event")
            ELSE IF ev.val.variant # "Post"
            THEN InvalidEventType(p.message_hash)
            ELSE IF ~MsgSigOk(message) THEN Err("Signature")
            ELSE Ok([block_hash |-> p.block_hash,
                     message_hash |-> p.message_hash,
                     author |-> MsgAuthor(message),
                     timestamp |-> BlockTime(block),
                     content |-> ev.val.event.content,
                     tags |-> ev.val.event.tags])

\* CommentIndex::read
CommentRead(c, p, serr) ==
    IF serr THEN Err("Storage")
    ELSE IF ~read_block(c, p.block_hash).some
    THEN NoMessageInStorage(p.block_hash)
    ELSE IF ~read_message(c, p.message_hash).some
    THEN NoMessageInStorage(p.message_hash)
    ELSE LET block == read_block(c, p.block_hash).val
             message == read_message(c, p.message_hash).val
             ev == EventsFromBytes(MsgData(message))
         IN IF ~ev.ok THEN Err("Event")
            ELSE IF ev.val.variant # "Comment"
            THEN InvalidEventType(p.message_hash)
            ELSE IF ~find_message(c, ev.val.event.ref_message_hash).some
            THEN NoBlockWithMessage(ev.val.event.ref_message_hash)
            ELSE IF ~MsgSigOk(message) THEN Err("Signature")
            ELSE Ok([block_hash |-> p.block_hash,
                     message_hash |-> p.message_hash,
                     ref_block_hash |->
                         find_message(c, ev.val.event.ref_message_hash).val,
                     ref_message_hash |-> ev.val.event.ref_message_hash,
                     author |-> MsgAuthor(message),
                     timestamp |-> BlockTime(block),
                     content |-> ev.val.event.content])

\* The storages a read may meet: every chain of at most MaxChainLen blocks.
ReadChains == {c \in SeqsUpTo(BlockIds, MaxChainLen) : IsChain(c)}

\* The hashes an index entry may hold: of every block or message, and of none.
EntryBlockHashes == {HashOf(b) : b \in BlockIds} \cup {HashOf(99)}
EntryMessageHashes == {HashOf(m) : m \in MsgIds} \cup {HashOf(99)}

NoRead == [kind |-> "none"]

ReadIdle == rcall = NoRead

\* post.read(storage)
ReadPost(bh, mh, serr) ==
    /\ rcall' = [kind |-> "post", entry |-> PostIndex(bh, mh), serr |-> serr,
                 res |-> PostRead(chain, PostIndex(bh, mh), serr)]

\* comment.read(storage)
ReadComment(bh, mh, ref, serr) ==
    /\ rcall' = [kind |-> "comment", entry |-> CommentIndex(bh, mh, ref),
                 serr |-> serr,
                 res |-> CommentRead(chain, CommentIndex(bh, mh, ref), serr)]

-----------------------------------------------------------------------------
(* MainWindowHandlerWorkerInput::QueryPosts, garden-client/src/ui/         *)
(* main_window.rs, as a reader of the index next to Handler::update.       *)

\* posts().skip_while(..).skip(..).cloned().collect()
RECURSIVE SkipWhileNot(_, _)
SkipWhileNot(posts, hash) ==
    IF posts = <<>> THEN <<>>
    ELSE IF Head(posts).message_hash # hash THEN SkipWhileNot(Tail(posts), hash)
    ELSE posts

PostsSince(idx, since) ==
    IF since.some
    THEN LET rest == SkipWhileNot(idx.posts, since.val)
         IN IF rest = <<>> THEN <<>> ELSE Tail(rest)
    ELSE idx.posts

\* The since_message values of a query: none, a post, a hash never indexed.
SinceValues == {None, Some(HashOf(11)), Some(HashOf(14)), Some(HashOf(99))}

QueryIdle ==
    /\ qpc = "idle"
    /\ qguard = FALSE
    /\ qseen = DefaultIndex
    /\ qsince = None
    /\ qcopy = <<>>
    /\ qemit = None

\* handler.index(): index.read() returns once no writer holds the lock.
QueryLock(since) ==
    /\ qpc = "idle"
    /\ pc = "idle"
    /\ qpc' = "copy"
    /\ qguard' = TRUE
    /\ qseen' = index
    /\ qsince' = since
    /\ qemit' = None
    /\ UNCHANGED qcopy

\* The rest of the `let posts = ..;` statement, with the guard kept after it.
QueryCopyKeepsGuard ==
    /\ qpc = "copy"
    /\ qcopy' = PostsSince(index, qsince)
    /\ qpc' = "resolve"
    /\ UNCHANGED <<qguard, qseen, qsince, qemit>>

\* The rest of the `let posts = ..;` statement: the entries are cloned into
\* a Vec and the guard, a temporary of the statement, is dropped.
QueryCopy ==
    /\ qpc = "copy"
    /\ qcopy' = PostsSince(index, qsince)
    /\ qguard' = FALSE
    /\ qseen' = DefaultIndex
    /\ qsince' = None
    /\ qpc' = "resolve"
    /\ UNCHANGED qemit

\* One turn of `for post in posts`: handler.read_post(&post), and the output
\* of the post when it was read.
QueryRead(serr) ==
    /\ qpc = "resolve"
    /\ qcopy # <<>>
    /\ LET r == IF attached THEN Some(PostRead(chain, Head(qcopy), serr))
                ELSE None
       IN qemit' = IF r.some /\ r.val.ok THEN Some(r.val.val) ELSE None
    /\ qcopy' = Tail(qcopy)
    /\ UNCHANGED <<qpc, qguard, qseen, qsince>>

\* The loop over the copied entries is over: the handler returns.
QueryDone ==
    /\ qpc = "resolve"
    /\ qcopy = <<>>
    /\ qpc' = "idle"
    /\ qemit' = None
    /\ UNCHANGED <<qguard, qseen, qsince, qcopy>>

-----------------------------------------------------------------------------
(* Database::sync, garden-server/src/database.rs.                          *)

\* The tables right after Database::new on a new file.
EmptyDb ==
    [handled |-> {}, posts |-> <<>>, tags |-> {}, comments |-> <<>>,
     reactions |-> <<>>]

Range(q) == {q[i] : i \in 1..Len(q)}

\* Database::is_handled
is_handledNever(d, b) == FALSE
is_handled(d, b) == HashOf(b) \in d.handled

\* INSERT INTO v1_post_tags, one row per tag; UNIQUE (post, tag).
RECURSIVE InsertTags(_, _, _)
InsertTags(d, post, tags) ==
    IF tags = <<>> THEN Ok(d)
    ELSE IF <<post, Head(tags)>> \in d.tags THEN Err("Index")
    ELSE InsertTags([d EXCEPT !.tags = @ \cup {<<post, Head(tags)>>}],
                    post, Tail(tags))

\* The body of the loop over the block's transactions, for one transaction.
InsertTransaction(d, b, m) ==
    IF ~MsgSigOk(m) THEN Err("VerifySignature")
    ELSE LET r == EventsFromBytes(MsgData(m))
             h == HashOf(m)
         IN IF ~r.ok THEN Err("Events")
            ELSE CASE r.val.variant = "Post" ->
                        IF \E row \in Range(d.posts) : row.transaction = h
                        THEN Err("Index")
                        ELSE InsertTags(
                               [d EXCEPT !.posts = Append(@,
                                   [transaction |-> h,
                                    content |-> r.val.event.content,
                                    timestamp |-> BlockTime(b),
                                    author |-> MsgAuthor(m)])],
                               h, r.val.event.tags)
                   [] r.val.variant = "Comment" ->
                        IF \E row \in Range(d.comments) : row.transaction = h
                        THEN Err("Index")
                        ELSE Ok([d EXCEPT !.comments = Append(@,
                                   [ref |-> r.val.event.ref_message_hash,
                                    transaction |-> h,
                                    content |-> r.val.event.content,
                                    timestamp |-> BlockTime(b),
                                    author |-> MsgAuthor(m)])])
                   [] r.val.variant = "Reaction" ->
                        IF \E row \in Range(d.reactions) : row.transaction = h
                        THEN Err("Index")
                        ELSE Ok([d EXCEPT !.reactions = Append(@,
                                   [ref |-> r.val.event.ref_address,
                                    transaction |-> h,
                                    name |-> ReactionToName(r.val.event.reaction),
                                    timestamp |-> BlockTime(b),
                                    author |-> MsgAuthor(m)])])

\* The loop over the block's transactions.
RECURSIVE InsertTransactionsLossy(_, _, _)
InsertTransactionsLossy(d, b, msgs) ==
    IF msgs = <<>> THEN Ok(d)
    ELSE LET r == InsertTransaction(d, b, Head(msgs)) IN
         InsertTransactionsLossy(IF r.ok THEN r.val ELSE d, b, Tail(msgs))

RECURSIVE InsertTransactions(_, _, _)
InsertTransactions(d, b, msgs) ==
    IF msgs = <<>> THEN Ok(d)
    ELSE LET r == InsertTransaction(d, b, Head(msgs)) IN
         IF ~r.ok THEN r ELSE InsertTransactions(r.val, b, Tail(msgs))

\* One database transaction of sync: INSERT INTO v1_handled_blocks (UNIQUE),
\* the rows of the block's events, commit.  A `?` that leaves drops the
\* rusqlite Transaction, which rolls it back.
ProjectBlock(d, b) ==
    IF HashOf(b) \in d.handled THEN Err("Index")
    ELSE InsertTransactions([d EXCEPT !.handled = @ \cup {HashOf(b)}], b,
                            BlockMsgs(b))

\* Database::sync over the rest of storage.history(); the storage fails at
\* the failAt-th of these blocks (never: 0).
RECURSIVE SyncFrom(_, _, _)
SyncFrom(d, hist, failAt) ==
    IF hist = <<>> THEN [db |-> d, res |-> "ok"]
    ELSE IF failAt = 1 THEN [db |-> d, res |-> "err_storage"]
    ELSE IF is_handled(d, Head(hist))
         THEN SyncFrom(d, Tail(hist), failAt - 1)
    ELSE LET r == ProjectBlock(d, Head(hist)) IN
         IF r.ok THEN SyncFrom(r.val, Tail(hist), failAt - 1)
         ELSE [db |-> d, res |-> "err_" \o r.err]

DbIdle ==
    /\ schain = <<>>
    /\ db = EmptyDb
    /\ syncResult = "none"
    /\ syncStart = EmptyDb

\* Database::sync
DbSync(failAt) ==
    /\ failAt <= Len(schain)
    /\ LET r == SyncFrom(db, schain, failAt) IN
         /\ db' = r.db
         /\ syncResult' = r.res
    /\ syncStart' = db
    /\ UNCHANGED schain

\* The server's storage gains the block b.
DbStorageAppend(b) ==
    /\ IsChain(Append(schain, b))
    /\ schain' = Append(schain, b)
    /\ syncResult' = "none"
    /\ UNCHANGED <<db, syncStart>>

\* The server's storage loses every block after the k-th.
DbStorageTruncate(k) ==
    /\ k < Len(schain)
    /\ schain' = SubSeq(schain, 1, k)
    /\ syncResult' = "none"
    /\ UNCHANGED <<db, syncStart>>

\* i64::MAX, as the largest integer at hand: every rowid is below it.
I64_MAX == 2147483647

\* query_reactions: the rows of v1_reactions WHERE ref = address
query_reactions(d, address) ==
    LET sel == SelectSeq(d.reactions, LAMBDA row : row.ref = address)
    IN [i \in 1..Len(sel) |->
          [name |-> sel[i].name, timestamp |-> sel[i].timestamp,
           author |-> sel[i].author]]

\* query_comments_list: transaction FROM v1_comments WHERE ref = address
query_comments_list(d, address) ==
    LET sel == SelectSeq(d.comments, LAMBDA row : row.ref = address)
    IN [i \in 1..Len(sel) |-> sel[i].transaction]

\* query_post: Ok(None) when v1_posts has no row for the address
query_post(d, address) ==
    IF ~\E i \in 1..Len(d.posts) : d.posts[i].transaction = address
    THEN None
    ELSE LET row == d.posts[CHOOSE i \in 1..Len(d.posts) :
                               d.posts[i].transaction = address]
         IN Some([content |-> row.content,
                  tags |-> {t[2] : t \in {x \in d.tags : x[1] = address}},
                  timestamp |-> row.timestamp,
                  author |-> row.author,
                  reactions |-> query_reactions(d, address),
                  comments |-> query_comments_list(d, address)])

\* SELECT rowid, transaction FROM v1_posts WHERE rowid < ?1 ORDER BY rowid
\* ASC, first row: the rowid of a row is its place in d.posts.
FirstRowAscending(d, curr_id) ==
    IF \E r \in 1..Len(d.posts) : r < curr_id
    THEN LET r == CHOOSE r \in 1..Len(d.posts) :
                     r < curr_id /\ \A q \in 1..Len(d.posts) : q < curr_id => r <= q
         IN Some([rowid |-> r, transaction |-> d.posts[r].transaction])
    ELSE None

\* SELECT rowid, transaction FROM v1_posts WHERE rowid < ?1 ORDER BY rowid
\* DESC, first row (query_row).
FirstRowBelow(d, curr_id) ==
    IF \E r \in 1..Len(d.posts) : r < curr_id
    THEN LET r == CHOOSE r \in 1..Len(d.posts) :
                     r < curr_id /\ \A q \in 1..Len(d.posts) : q < curr_id => q <= r
         IN Some([rowid |-> r, transaction |-> d.posts[r].transaction])
    ELSE None

NoIter == [live |-> FALSE]

IterIdle == piter = NoIter

\* Database::posts
DatabasePosts ==
    /\ piter' = [live |-> TRUE, curr_id |-> I64_MAX, yielded |-> <<>>,
                 ended |-> FALSE, calls |-> 0,
                 present |-> Len(db.posts), horizon |-> 0]

\* PostsIter::next
PostsIterNext ==
    /\ piter.live
    /\ ~piter.ended
    /\ LET row == FirstRowBelow(db, piter.curr_id)
           seen == [piter EXCEPT !.calls = @ + 1,
                                 !.horizon = IF piter.calls = 0
                                             THEN Len(db.posts) ELSE @]
       IN IF ~row.some
          THEN piter' = [seen EXCEPT !.ended = TRUE]
          ELSE LET post == query_post(db, row.val.transaction) IN
               IF ~post.some
               THEN piter' = [seen EXCEPT !.curr_id = row.val.rowid,
                                          !.ended = TRUE]
               ELSE piter' = [seen EXCEPT
                                !.curr_id = row.val.rowid,
                                !.yielded = Append(@,
                                    [rowid |-> row.val.rowid,
                                     post |-> post.val])]

-----------------------------------------------------------------------------
(* The account vault, garden-client/src/accounts.rs and ui/login_window.rs. *)
(* blake3, ChaCha20-Poly1305, base64 and SigningKey are libraries: the key  *)
(* derivation has no collisions, the cipher adds a key stream to the plain  *)
(* text and appends a tag that only the same key, nonce and cipher text      *)
(* reproduce.                                                               *)

\* Account::CONTEXT
CONTEXT == "garden client account encryption key context"
\* Account::NONCE
NONCE == <<73, 144, 0, 139, 49, 38, 122, 43, 159, 112, 212, 48>>

RECURSIVE SumSeq(_)
SumSeq(q) == IF q = <<>> THEN 0 ELSE Head(q) + SumSeq(Tail(q))

\* blake3::derive_key(context, material)
DeriveKey(context, material) == [context |-> context, material |-> material]

\* The i-th byte of the ChaCha20 key stream of a key and a nonce.
KeyStream(key, nonce, i) ==
    (37 * SumSeq(key.material) + 11 * Len(key.material)
        + nonce[((i - 1) % Len(nonce)) + 1] + i) % 256

\* The Poly1305 tag of a cipher text under a key and a nonce.
Mac(key, nonce, body) == [key |-> key, nonce |-> nonce, body |-> body]

\* ChaCha20Poly1305::encrypt
AeadEncrypt(key, nonce, plain) ==
    LET body == [i \in 1..Len(plain) |->
                    (plain[i] + KeyStream(key, nonce, i)) % 256]
    IN [body |-> body, tag |-> Mac(key, nonce, body)]

\* The key stream taken off a cipher text.
StreamOff(key, nonce, body) ==
    [i \in 1..Len(body) |-> (body[i] + 256 - KeyStream(key, nonce, i)) % 256]

\* ChaCha20Poly1305::decrypt
AeadDecrypt(key, nonce, cipher) ==
    IF cipher.tag # Mac(key, nonce, cipher.body) THEN Err("aead")
    ELSE Ok(StreamOff(key, nonce, cipher.body))

\* base64::encode, base64::decode
Base64Encode(x) == [base64 |-> x]
Base64Decode(str) == Ok(str.base64)

\* SigningKey::to_bytes, SigningKey::from_bytes (no key is the zero scalar)
SigningKeyToBytes(k) == k.scalar
SigningKeyFromBytes(buf) ==
    IF \A i \in 1..Len(buf) : buf[i] = 0 THEN None ELSE Some([scalar |-> buf])

\* Two signing keys.
SigningKeys ==
    {[scalar |-> [i \in 1..KeySize |-> 1]],
     [scalar |-> [i \in 1..KeySize |-> IF i = 1 THEN 2 ELSE 1]]}

\* The empty password, "p" and "pw".
Passwords == {<<>>, <<112>>, <<112, 119>>}

AccountNames == {"alice", "bob"}

\* UtcDateTime::now()
Times == {[secs |-> 100, nanos |-> 5]}

\* Account::new
AccountNewOtherContext(name, signing_key, password, now) ==
    LET key == DeriveKey("", password)
        cipher == AeadEncrypt(key, NONCE, SigningKeyToBytes(signing_key))
    IN Ok([name |-> name, created_at |-> now,
           signing_key |-> Base64Encode(cipher)])
AccountNew(name, signing_key, password, now) ==
    LET key == DeriveKey(CONTEXT, password)
        cipher == AeadEncrypt(key, NONCE, SigningKeyToBytes(signing_key))
    IN Ok([name |-> name, created_at |-> now,
           signing_key |-> Base64Encode(cipher)])

\* Account::signing_key
AccountSigningKeyNoAuth(acc, password) ==
    LET key == DeriveKey(CONTEXT, password)
        cipher == Base64Decode(acc.signing_key)
    IN IF ~cipher.ok THEN Err("base64")
       ELSE LET plain == StreamOff(key, NONCE, cipher.val.body) IN
            IF Len(plain) # KeySize THEN Err("size")
            ELSE IF ~SigningKeyFromBytes(plain).some THEN Err("key")
            ELSE Ok(SigningKeyFromBytes(plain).val)
AccountSigningKey(acc, password) ==
    LET key == DeriveKey(CONTEXT, password)
        cipher == Base64Decode(acc.signing_key)
    IN IF ~cipher.ok THEN Err("base64")
       ELSE LET plain == AeadDecrypt(key, NONCE, cipher.val) IN
            IF ~plain.ok THEN Err("decrypt")
            ELSE IF Len(plain.val) # KeySize THEN Err("size")
            ELSE IF ~SigningKeyFromBytes(plain.val).some THEN Err("key")
            ELSE Ok(SigningKeyFromBytes(plain.val).val)

\* Account::to_json: created_at is written as whole seconds.
AccountToJson(acc) ==
    [name |-> acc.name, created_at |-> acc.created_at.secs,
     signing_key |-> acc.signing_key]

\* accounts::write: the array of the accounts' JSON values.
AccountsWrite(entries) ==
    [i \in 1..Len(entries) |-> AccountToJson(entries[i].account)]

NoCall == [called |-> FALSE]

VaultIdle ==
    /\ accounts = <<>>
    /\ vfile = <<>>
    /\ vdialog = None
    /\ vres = NoCall
    /\ vtorn = FALSE

\* std::fs::write(path, contents) when the process dies inside it: the file
\* was opened with truncation, and the first `cut` entries of the array
\* were written; the array is not closed.
FsWriteCut(contents, cut) == SubSeq(contents, 1, cut)

\* NewAccountDialogMsg::Create followed by LoginWindowMsg::AddAccount.
AddAccount(name, signing_key, password, now) ==
    /\ Len(accounts) < MaxAccounts
    /\ LET acc == AccountNew(name, signing_key, password, now) IN
         /\ acc.ok
         /\ accounts' = Append(accounts,
                [account |-> acc.val, key |-> signing_key,
                 password |-> password])
    /\ vfile' = AccountsWrite(accounts')
    /\ UNCHANGED <<vdialog, vres>>

\* LoginWindowMsg::DeleteAccount(index)
DeleteAccount(i) ==
    /\ i \in 1..Len(accounts)
    /\ accounts' = SubSeq(accounts, 1, i - 1) \o SubSeq(accounts, i + 1, Len(accounts))
    /\ vfile' = AccountsWrite(accounts')
    /\ UNCHANGED <<vdialog, vres>>

\* LoginWindowMsg::AddAccount when the process dies inside accounts::write.
AddAccountCrash(name, signing_key, password, now, cut) ==
    /\ Len(accounts) < MaxAccounts
    /\ LET acc == AccountNew(name, signing_key, password, now)
           entries == Append(accounts,
                [account |-> acc.val, key |-> signing_key,
                 password |-> password])
       IN /\ acc.ok
          /\ cut \in 0..Len(entries)
          /\ vfile' = FsWriteCut(AccountsWrite(entries), cut)
    /\ vtorn' = TRUE
    /\ UNCHANGED <<accounts, vdialog, vres>>

\* LoginWindowMsg::DeleteAccount when the process dies inside
\* accounts::write.
DeleteAccountCrash(i, cut) ==
    /\ i \in 1..Len(accounts)
    /\ LET entries == SubSeq(accounts, 1, i - 1)
                        \o SubSeq(accounts, i + 1, Len(accounts))
       IN /\ cut \in 0..Len(entries)
          /\ vfile' = FsWriteCut(AccountsWrite(entries), cut)
    /\ vtorn' = TRUE
    /\ UNCHANGED <<accounts, vdialog, vres>>

\* LoginWindowMsg::LoginIntoAccount(index): the empty password is tried
\* first, the password dialog opens when it fails.
LoginIntoAccount(i) ==
    /\ i \in 1..Len(accounts)
    /\ LET r == AccountSigningKey(accounts[i].account, <<>>) IN
         /\ vres' = [called |-> TRUE, entry |-> accounts[i], password |-> <<>>,
                     res |-> r]
         /\ vdialog' = IF r.ok THEN vdialog ELSE Some(accounts[i])
    /\ UNCHANGED <<accounts, vfile>>

\* LoginAccountDialogMsg::Login with the password the user typed.
DialogLogin(password) ==
    /\ vdialog.some
    /\ vres' = [called |-> TRUE, entry |-> vdialog.val, password |-> password,
                res |-> AccountSigningKey(vdialog.val.account, password)]
    /\ UNCHANGED <<accounts, vfile, vdialog>>

-----------------------------------------------------------------------------
(* The publish path, garden-protocol/src/handler.rs.                       *)

\* The blockchain address of the handler.
HandlerAddress == HashOf(1)

\* Message::create(signing_key, data); the signing may fail.
MessageCreate(signing_key, data, fails) ==
    IF fails THEN Err("SignatureError")
    ELSE Ok([data |-> data, signed_by |-> signing_key])

\* Handler::send_event: the messages handed to the node after it, and what
\* it returns.
send_eventBare(box, signing_key, event, fails) ==
    LET message == MessageCreate(signing_key, EventToBytes(event), fails) IN
    IF ~message.ok THEN [outbox |-> box, res |-> message]
    ELSE [outbox |-> Append(box, [address |-> HandlerAddress,
                                  message |-> message.val]),
          res |-> Ok("unit")]
send_event(box, signing_key, event, fails) ==
    LET message == MessageCreate(signing_key, EventsToBytes(event), fails) IN
    IF ~message.ok THEN [outbox |-> box, res |-> message]
    ELSE [outbox |-> Append(box, [address |-> HandlerAddress,
                                  message |-> message.val]),
          res |-> Ok("unit")]

\* The publish operations Handler offers.
SendOperations == {"send_post", "send_comment"}

\* The events that are published.
PubEvents ==
    {Events("Post", PostNew(<<>>, <<>>).val),
     Events("Post", ExamplePost),
     Events("Comment", CommentNew(HashOf(11), <<104>>))}

PublishIdle ==
    /\ outbox = <<>>
    /\ pubCall = NoCall
    /\ pubResult = None
    /\ pubCount = 0

\* Handler::send_post
SendPost(signing_key, post, fails) ==
    /\ pubCount < MaxSends
    /\ LET r == send_event(outbox, signing_key, Events("Post", post), fails) IN
         /\ outbox' = r.outbox
         /\ pubResult' = Some(r.res)
    /\ pubCall' = [called |-> TRUE, op |-> "send_post", key |-> signing_key,
                   event |-> Events("Post", post), fails |-> fails]
    /\ pubCount' = pubCount + 1

\* Handler::send_comment
SendComment(signing_key, comment, fails) ==
    /\ pubCount < MaxSends
    /\ LET r == send_event(outbox, signing_key, Events("Comment", comment),
                           fails) IN
         /\ outbox' = r.outbox
         /\ pubResult' = Some(r.res)
    /\ pubCall' = [called |-> TRUE, op |-> "send_comment", key |-> signing_key,
                   event |-> Events("Comment", comment), fails |-> fails]
    /\ pubCount' = pubCount + 1

-----------------------------------------------------------------------------
(* The specifications.                                                     *)

CodecInit ==
    /\ cev \in EventUniverse \cup {RawInput}
    /\ CodecIdle
    /\ IndexIdle
    /\ DbIdle
    /\ VaultIdle
    /\ PublishIdle
    /\ ReadIdle
    /\ IterIdle
    /\ QueryIdle
    /\ WorkerIdle
    /\ WindowIdle

CodecNext ==
    \/ EncodePost /\ UNCHANGED <<indexVars, dbVars, clientVars>>
    \/ DecodePost /\ UNCHANGED <<indexVars, dbVars, clientVars>>
    \/ EncodeEvents /\ UNCHANGED <<indexVars, dbVars, clientVars>>
    \/ DecodeEvents /\ UNCHANGED <<indexVars, dbVars, clientVars>>
    \/ AskSizeHint /\ UNCHANGED <<indexVars, dbVars, clientVars>>
    \/ /\ cev = RawInput
       /\ cstep = "new"
       /\ \E buf \in RawBuffers :
            ReceivePost(buf) /\ UNCHANGED <<indexVars, dbVars, clientVars>>
    \/ /\ cev = RawInput
       /\ cstep = "new"
       /\ \E buf \in RawBuffers :
            ReceiveEvents(buf) /\ UNCHANGED <<indexVars, dbVars, clientVars>>
    \/ DecodeComment /\ UNCHANGED <<indexVars, dbVars, clientVars>>
    \/ DecodeReaction /\ UNCHANGED <<indexVars, dbVars, clientVars>>
    \/ /\ cev = RawInput
       /\ cstep = "new"
       /\ \E buf \in RawBuffers :
            ReceiveComment(buf) /\ UNCHANGED <<indexVars, dbVars, clientVars>>
    \/ /\ cev = RawInput
       /\ cstep = "new"
       /\ \E buf \in RawBuffers :
            ReceiveReaction(buf) /\ UNCHANGED <<indexVars, dbVars, clientVars>>
    \/ /\ cev = RawInput
       /\ cstep = "new"
       /\ \E str \in TagCandidates :
            TagNewCall(str) /\ UNCHANGED <<indexVars, dbVars, clientVars>>

SpecCodec == CodecInit /\ [][CodecNext]_vars

\* Any event: the codec is not run under Spec and SpecDb.
NoEvent == Events("Post", PostNew(<<>>, <<>>).val)

Init ==
    /\ cev = NoEvent
    /\ CodecIdle
    /\ IndexIdle
    /\ DbIdle
    /\ VaultIdle
    /\ PublishIdle
    /\ ReadIdle
    /\ IterIdle
    /\ QueryIdle
    /\ WorkerIdle
    /\ WindowIdle

Next ==
    \/ UpdateDetached /\ UNCHANGED <<codecVars, dbVars, clientVars>>
    \/ UpdateEarlyStorageError /\ UNCHANGED <<codecVars, dbVars, clientVars>>
    \/ UpdateEmpty /\ UNCHANGED <<codecVars, dbVars, clientVars>>
    \/ UpdateEnter /\ UNCHANGED <<codecVars, dbVars, clientVars>>
    \/ UpdateLoopStorageError /\ UNCHANGED <<codecVars, dbVars, clientVars>>
    \/ UpdateBlock /\ UNCHANGED <<codecVars, dbVars, clientVars>>
    \/ UpdateDone /\ UNCHANGED <<codecVars, dbVars, clientVars>>
    \/ \E b \in BlockIds : StorageAppend(b) /\ UNCHANGED <<codecVars, dbVars, clientVars>>
    \/ \E k \in 0..2 : StorageTruncate(k) /\ UNCHANGED <<codecVars, dbVars, clientVars>>
    \/ StorageDetach /\ UNCHANGED <<codecVars, dbVars, clientVars>>
    \/ StorageAttach /\ UNCHANGED <<codecVars, dbVars, clientVars>>

Spec == Init /\ [][Next]_vars

DbNext ==
    \/ \E f \in 0..3 : DbSync(f) /\ UNCHANGED <<codecVars, indexVars, clientVars>>
    \/ \E b \in BlockIds : DbStorageAppend(b) /\ UNCHANGED <<codecVars, indexVars, clientVars>>
    \/ \E k \in 0..2 : DbStorageTruncate(k) /\ UNCHANGED <<codecVars, indexVars, clientVars>>
    \/ DatabasePosts /\ UNCHANGED exceptIter
    \/ PostsIterNext /\ UNCHANGED exceptIter

SpecDb == Init /\ [][DbNext]_vars

\* The blocks the storage gains while a reader is at work: the chain
\* 1, 2, 3 and the block 4 whose second message does not decode.
SharedBlocks == {1, 2, 3, 4}

\* Handler::update in one thread, the QueryPosts handler in another.
SharedNext ==
    \/ UpdateDetached /\ UNCHANGED <<codecVars, dbVars, clientVars>>
    \/ UpdateEarlyStorageError /\ UNCHANGED <<codecVars, dbVars, clientVars>>
    \/ UpdateEmpty /\ UNCHANGED <<codecVars, dbVars, clientVars>>
    \/ UpdateEnter /\ UNCHANGED <<codecVars, dbVars, clientVars>>
    \/ UpdateLoopStorageError /\ UNCHANGED <<codecVars, dbVars, clientVars>>
    \/ UpdateBlock /\ UNCHANGED <<codecVars, dbVars, clientVars>>
    \/ UpdateDone /\ UNCHANGED <<codecVars, dbVars, clientVars>>
    \/ \E b \in SharedBlocks :
         StorageAppend(b) /\ UNCHANGED <<codecVars, dbVars, clientVars>>
    \/ \E k \in 0..1 :
         StorageTruncate(k) /\ UNCHANGED <<codecVars, dbVars, clientVars>>
    \/ StorageDetach /\ UNCHANGED <<codecVars, dbVars, clientVars>>
    \/ StorageAttach /\ UNCHANGED <<codecVars, dbVars, clientVars>>
    \/ \E since \in SinceValues :
         QueryLock(since) /\ UNCHANGED <<exceptQuery, indexVars>>
    \/ QueryCopy /\ UNCHANGED <<exceptQuery, indexVars>>
    \/ \E serr \in BOOLEAN :
         QueryRead(serr) /\ UNCHANGED <<exceptQuery, indexVars>>
    \/ QueryDone /\ UNCHANGED <<exceptQuery, indexVars>>

SpecShared == Init /\ [][SharedNext]_vars

\* What the worker thread does.
WorkerSteps ==
    \/ WorkerUpdate(UpdateDetached) /\ UNCHANGED exceptWorker
    \/ ~frozen /\ WorkerUpdate(UpdateEarlyStorageError) /\ UNCHANGED exceptWorker
    \/ WorkerUpdate(UpdateEmpty) /\ UNCHANGED exceptWorker
    \/ WorkerUpdate(UpdateEnter) /\ UNCHANGED exceptWorker
    \/ ~frozen /\ WorkerUpdate(UpdateLoopStorageError) /\ UNCHANGED exceptWorker
    \/ WorkerUpdate(UpdateBlock) /\ UNCHANGED exceptWorker
    \/ WorkerUpdate(UpdateDone) /\ UNCHANGED exceptWorker

\* What the thread started by the worker's init does.
TickSteps == WorkerTick /\ UNCHANGED <<exceptWorker, indexVars>>

\* The background projection loop of the client and the node's storage.
LoopNext ==
    \/ WorkerSteps
    \/ TickSteps
    \/ /\ ~frozen
       /\ \E b \in SharedBlocks :
            StorageAppend(b) /\ UNCHANGED <<codecVars, dbVars, clientVars>>
    \/ /\ ~frozen
       /\ \E k \in 0..1 :
            StorageTruncate(k) /\ UNCHANGED <<codecVars, dbVars, clientVars>>
    \/ ~frozen /\ StorageDetach /\ UNCHANGED <<codecVars, dbVars, clientVars>>
    \/ ~frozen /\ StorageAttach /\ UNCHANGED <<codecVars, dbVars, clientVars>>
    \/ pc = "idle" /\ Freeze /\ UNCHANGED <<exceptWorker, indexVars>>

SpecLoop == Init /\ [][LoopNext]_vars

\* The blocks the storage gains under SpecClient.
ClientBlocks == {1, 2, 3}

\* The client: the two tick threads, the worker and the main window, and a
\* storage that grows.
ClientNext ==
    \/ WorkerUpdate(UpdateEmpty) /\ UNCHANGED exceptWorker
    \/ WorkerUpdate(UpdateEnter) /\ UNCHANGED exceptWorker
    \/ WorkerUpdate(UpdateBlock) /\ UNCHANGED exceptWorker
    \/ WorkerUpdate(UpdateDone) /\ UNCHANGED exceptWorker
    \/ WorkerTick /\ UNCHANGED <<exceptWorker, indexVars>>
    \/ WorkerQuery(QueryLock(Head(wq).since))
         /\ UNCHANGED <<exceptClient, indexVars>>
    \/ WorkerQuery(QueryCopy) /\ UNCHANGED <<exceptClient, indexVars>>
    \/ WorkerQuery(QueryRead(FALSE)) /\ UNCHANGED <<exceptClient, indexVars>>
    \/ WorkerQuery(QueryDone) /\ UNCHANGED <<exceptClient, indexVars>>
    \/ WindowTick
         /\ UNCHANGED <<exceptClient, indexVars, queryVars, walive, frozen>>
    \/ WindowUpdate
         /\ UNCHANGED <<exceptClient, indexVars, queryVars, walive, frozen>>
    \/ WindowAddPost
         /\ UNCHANGED <<exceptClient, indexVars, queryVars, walive, frozen>>
    \/ \E b \in ClientBlocks :
         StorageAppend(b) /\ UNCHANGED <<codecVars, dbVars, clientVars>>

SpecClient == Init /\ [][ClientNext]_vars

\* The tick thread wakes up again and again, and the worker thread handles
\* an input whenever it has one.
SpecLoopLive ==
    /\ SpecLoop
    /\ WF_vars(TickSteps)
    /\ WF_vars(WorkerSteps)

\* The login window handles messages until the process dies; a start on a
\* file that is cut short fails in accounts::read.
VaultNext ==
    \/ /\ ~vtorn
       /\ \E n \in AccountNames : \E k \in SigningKeys : \E pw \in Passwords :
            \E t \in Times :
              AddAccount(n, k, pw, t) /\ UNCHANGED exceptVault
    \/ /\ ~vtorn
       /\ \E i \in 1..MaxAccounts :
            DeleteAccount(i) /\ UNCHANGED exceptVault
    \/ /\ ~vtorn
       /\ \E i \in 1..MaxAccounts :
            LoginIntoAccount(i) /\ UNCHANGED exceptVault
    \/ /\ ~vtorn
       /\ \E pw \in Passwords :
            DialogLogin(pw) /\ UNCHANGED exceptVault
    \/ /\ ~vtorn
       /\ \E n \in AccountNames : \E k \in SigningKeys : \E pw \in Passwords :
            \E t \in Times : \E cut \in 0..MaxAccounts :
              AddAccountCrash(n, k, pw, t, cut) /\ UNCHANGED exceptVaultFile
    \/ /\ ~vtorn
       /\ \E i \in 1..MaxAccounts : \E cut \in 0..MaxAccounts :
            DeleteAccountCrash(i, cut) /\ UNCHANGED exceptVaultFile

SpecVault == Init /\ [][VaultNext]_vars

PublishNext ==
    \/ \E k \in SigningKeys : \E e \in {x \in PubEvents : x.variant = "Post"} :
         \E f \in BOOLEAN :
           SendPost(k, e.event, f) /\ UNCHANGED exceptPublish
    \/ \E k \in SigningKeys : \E e \in {x \in PubEvents : x.variant = "Comment"} :
         \E f \in BOOLEAN :
           SendComment(k, e.event, f) /\ UNCHANGED exceptPublish

SpecPublish == Init /\ [][PublishNext]_vars

ReadInit ==
    /\ cev = NoEvent
    /\ CodecIdle
    /\ chain \in ReadChains
    /\ attached = TRUE
    /\ index = DefaultIndex
    /\ pc = "idle"
    /\ result = "none"
    /\ startIndex = DefaultIndex
    /\ startResult = "none"
    /\ didReset = FALSE
    /\ failedAt = 0
    /\ DbIdle
    /\ VaultIdle
    /\ PublishIdle
    /\ ReadIdle
    /\ IterIdle
    /\ QueryIdle
    /\ WorkerIdle
    /\ WindowIdle

ReadNext ==
    \/ \E bh \in EntryBlockHashes : \E mh \in EntryMessageHashes :
         \E serr \in BOOLEAN :
           ReadPost(bh, mh, serr)
             /\ UNCHANGED exceptRead
    \/ \E bh \in EntryBlockHashes : \E mh \in EntryMessageHashes :
         \E serr \in BOOLEAN :
           ReadComment(bh, mh, ZERO, serr)
             /\ UNCHANGED exceptRead

SpecRead == ReadInit /\ [][ReadNext]_vars

-----------------------------------------------------------------------------
(* What the claims compare the program with.                               *)

\* The entries the Post messages among msgs of block b stand for, in order.
PostEntries(b, msgs) ==
    LET sel == SelectSeq(msgs, LAMBDA m : MsgEvent(m).variant = "Post")
    IN [i \in 1..Len(sel) |-> PostIndex(HashOf(b), HashOf(sel[i]))]

\* The entries the Comment messages among msgs of block b stand for, in order.
CommentEntries(b, msgs) ==
    LET sel == SelectSeq(msgs, LAMBDA m : MsgEvent(m).variant = "Comment")
    IN [i \in 1..Len(sel) |->
          CommentIndex(HashOf(b), HashOf(sel[i]),
                       MsgEvent(sel[i]).event.ref_message_hash)]

RECURSIVE HistoryPosts(_)
HistoryPosts(c) ==
    IF c = <<>> THEN <<>>
    ELSE PostEntries(Head(c), BlockMsgs(Head(c))) \o HistoryPosts(Tail(c))

RECURSIVE HistoryComments(_)
HistoryComments(c) ==
    IF c = <<>> THEN <<>>
    ELSE CommentEntries(Head(c), BlockMsgs(Head(c))) \o HistoryComments(Tail(c))

\* The place of the first message of msgs that is no garden event,
\* Len(msgs) + 1 when there is none.
FirstForeign(msgs) ==
    IF \E i \in 1..Len(msgs) : MsgEvent(msgs[i]).variant = "Foreign"
    THEN CHOOSE i \in 1..Len(msgs) :
            /\ MsgEvent(msgs[i]).variant = "Foreign"
            /\ \A j \in 1..(i - 1) : MsgEvent(msgs[j]).variant # "Foreign"
    ELSE Len(msgs) + 1

\* The block the next turn of the block loop reads.
NextBlockId == read_block(chain, next_block(chain, index.last_block).val).val

\* The lists hold entries of blocks of the storage only.
EntriesInHistory ==
    /\ \A i \in 1..Len(index.posts) : has_block(chain, index.posts[i].block_hash)
    /\ \A i \in 1..Len(index.comments) :
         has_block(chain, index.comments[i].block_hash)

\* What Index::update finds when it starts: another root block, or the
\* last indexed block gone from the storage.
Reorged ==
    \/ root_block(chain) # Some(index.root_block)
    \/ ~has_block(chain, index.last_block)

\* Index::update has passed its storage reads and the reset branch.
EntersLoop == pc = "idle" /\ pc' = "loop"

Cleared == index.posts = <<>> /\ index.comments = <<>> /\ index.last_block = ZERO

\* The row Database::sync writes for the message m of the block b is in the
\* tables d, with the rows of its tags when it is a post.
RowPresent(d, b, m) ==
    LET ev == MsgEvent(m)
        h == HashOf(m)
    IN CASE ev.variant = "Post" ->
              /\ \E i \in 1..Len(d.posts) :
                    d.posts[i] = [transaction |-> h,
                                  content |-> ev.event.content,
                                  timestamp |-> BlockTime(b),
                                  author |-> MsgAuthor(m)]
              /\ \A i \in 1..Len(ev.event.tags) : <<h, ev.event.tags[i]>> \in d.tags
         [] ev.variant = "Comment" ->
              \E i \in 1..Len(d.comments) :
                 d.comments[i] = [ref |-> ev.event.ref_message_hash,
                                  transaction |-> h,
                                  content |-> ev.event.content,
                                  timestamp |-> BlockTime(b),
                                  author |-> MsgAuthor(m)]
         [] ev.variant = "Reaction" ->
              \E i \in 1..Len(d.reactions) :
                 d.reactions[i] = [ref |-> ev.event.ref_address,
                                   transaction |-> h,
                                   name |-> ReactionToName(ev.event.reaction),
                                   timestamp |-> BlockTime(b),
                                   author |-> MsgAuthor(m)]
         [] OTHER -> FALSE

\* No table of d holds a row written for the message m.
NoRow(d, m) ==
    /\ \A i \in 1..Len(d.posts) : d.posts[i].transaction # HashOf(m)
    /\ \A i \in 1..Len(d.comments) : d.comments[i].transaction # HashOf(m)
    /\ \A i \in 1..Len(d.reactions) : d.reactions[i].transaction # HashOf(m)
    /\ \A t \in d.tags : t[1] # HashOf(m)

-----------------------------------------------------------------------------
(* The claims.                                                             *)

\* C1: every constructible PostEvent survives PostEvent::to_bytes followed by
\* PostEvent::from_bytes: the decoder succeeds and returns the same content
\* and the same tags in the same order.
C1_PostRoundTrip ==
    (cstep = "decoded" /\ cvia = "post") => cdec = Ok(cev.event)

C1_Witness ==
    /\ cstep = "decoded"
    /\ cvia = "post"
    /\ cdec.ok
    /\ Len(cev.event.content) > 255
    /\ Len(cev.event.tags) >= 2
    /\ cev.event.tags[1] # cev.event.tags[2]

\* C2: every Events value survives Events::to_bytes followed by
\* Events::from_bytes: same variant, equal inner event (a comment's content
\* is the rest of the buffer after the hash, a reaction comes back from its
\* name).
C2_EventsRoundTrip ==
    (cstep = "decoded" /\ cvia = "events") => cdec = Ok(cev)

C2_Witness ==
    /\ cstep = "decoded"
    /\ cvia = "events"
    /\ cev.variant = "Comment"
    /\ Len(cev.event.content) > 0
    /\ cev.event.ref_message_hash # ZERO
    /\ cdec.ok
    /\ cdec.val.variant = "Comment"

C4_Original ==
    [][(pc = "idle" /\ result' \in {"ok", "running"} /\ Reorged) => Cleared'
      ]_vars

\* C4, amended: on a storage that is not empty, an update that finds the
\* root block changed or last_block gone empties the lists and zeroes
\* last_block before it projects a block, and from then on in that update
\* the lists hold entries of blocks of the storage only.  (On an empty
\* storage update returns Ok and leaves the index as it is.)
C4_ResetOnReorg ==
    [][/\ (EntersLoop /\ Reorged) => (Cleared' /\ didReset')
       /\ (didReset' /\ result' \in {"running", "ok", "err_event", "err_storage"})
            => EntriesInHistory'
      ]_vars

C4_Witness ==
    /\ didReset
    /\ result = "ok"
    /\ startIndex.posts # <<>>
    /\ startIndex.root_block = HashOf(chain[1])
    /\ index.posts # <<>>
    /\ index.posts # startIndex.posts

\* C5: a second Index::update on a storage that has not changed since the
\* first successful one leaves root_block, last_block, posts and comments
\* as the first left them, at every point of the call.
C5_UpdateIdempotent ==
    (startResult = "ok" /\ result # "none") =>
        /\ result \in {"running", "ok", "err_storage", "nostorage"}
        /\ index = startIndex

C5_Witness ==
    /\ startResult = "ok"
    /\ result = "ok"
    /\ Len(index.posts) >= 2
    /\ index.comments # <<>>

\* C6: an update that fails while it projects a block leaves last_block at
\* the last block projected in full, so the failing block is the one the
\* next call reads first.
C6_FailingBlockNotCheckpointed ==
    [][(pc = "loop" /\ result' \in {"err_event", "err_storage"}) =>
         /\ index'.last_block = index.last_block
         /\ result' = "err_event" =>
              /\ index'.last_block # HashOf(failedAt')
              /\ next_block(chain', index'.last_block) = Some(HashOf(failedAt'))
      ]_vars

C6_Witness ==
    /\ result = "err_event"
    /\ failedAt = 4
    /\ index.last_block = HashOf(1)
    /\ startIndex.last_block = ZERO

C8_AppendOnly ==
    [][\/ /\ IsPrefix(index.posts, index'.posts)
          /\ IsPrefix(index.comments, index'.comments)
       \/ /\ EntersLoop
          /\ Reorged
          /\ index'.posts = <<>>
          /\ index'.comments = <<>>
      ]_vars

C8_Witness ==
    /\ ~didReset
    /\ result = "ok"
    /\ startIndex.posts # <<>>
    /\ Len(index.posts) > Len(startIndex.posts)
    /\ Len(index.comments) > Len(startIndex.comments)

\* C9 as stated: the lists after a successful update depend only on the
\* storage's history, not on what the index held before.
C9_Original ==
    (result = "ok" /\ chain # <<>>) =>
        /\ index.posts = HistoryPosts(chain)
        /\ index.comments = HistoryComments(chain)

\* C10: a sync() on a storage whose history blocks are all handled changes
\* no row of any table, and does not fail on a constraint: no handled block
\* is projected again.
C10_SyncIdempotent ==
    (syncResult # "none"
        /\ \A i \in 1..Len(schain) : HashOf(schain[i]) \in syncStart.handled)
    => /\ db = syncStart
       /\ syncResult \in {"ok", "err_storage"}

C10_Witness ==
    /\ syncResult = "ok"
    /\ Len(schain) >= 2
    /\ \A i \in 1..Len(schain) : HashOf(schain[i]) \in syncStart.handled
    /\ syncStart.posts # <<>>
    /\ syncStart.comments # <<>>

\* C11: sync() projects a block in full or not at all: whatever the last
\* sync() returned, every block is either in v1_handled_blocks with a row for
\* each of its messages (each of them a verified garden event; a post with
\* the rows of its tags), or not in v1_handled_blocks with no row written for
\* any of its messages in any table.
C11_SyncAtomic ==
    \A b \in BlockIds :
        LET msgs == BlockMsgs(b) IN
        IF HashOf(b) \in db.handled
        THEN \A i \in 1..Len(msgs) : MsgSigOk(msgs[i]) /\ RowPresent(db, b, msgs[i])
        ELSE \A i \in 1..Len(msgs) : NoRow(db, msgs[i])

C11_Witness ==
    /\ syncResult = "err_Index"
    /\ schain = <<1, 2, 8>>
    /\ syncStart.handled = {}
    /\ db.handled = {HashOf(1), HashOf(2)}
    /\ Len(db.comments) = 1

\* C12 as stated: size_hint() of every event, a PostEvent included, is the
\* length of its to_bytes().
C12_Original ==
    chint.asked => chint.hint = Some(Len(EventToBytes(cev)))

\* C12, amended: size_hint() of a CommentEvent and of a ReactionEvent is the
\* exact length of its to_bytes(); PostEvent has no size_hint of its own and
\* answers None; Events::to_bytes is exactly 2 bytes longer than the
\* to_bytes() of the event it holds, for the three variants.
C12_SizeHintExact ==
    /\ chint.asked =>
         chint.hint = IF cev.variant = "Post" THEN None
                      ELSE Some(Len(EventToBytes(cev)))
    /\ (cvia = "events" /\ cstep # "new") =>
         Len(cbytes) = Len(EventToBytes(cev)) + 2

C12_Witness ==
    /\ chint.asked
    /\ cev.variant = "Comment"
    /\ Len(cev.event.content) = 2
    /\ cvia = "events"
    /\ cstep = "encoded"
    /\ chint.hint = Some(Len(cbytes) - 2)

\* C13 as stated: PostEvent::from_bytes on a buffer of n bytes whose first
\* two bytes declare a content_len with content_len + 3 > n returns
\* SliceTooShort.
C13_Original ==
    (/\ cvia = "rawpost"
     /\ cstep = "decoded"
     /\ Len(cbytes) >= 2
     /\ cbytes[1] + 256 * cbytes[2] + 3 > Len(cbytes))
    => cdec = Err("SliceTooShort")

\* The result of Events::from_bytes is what the decoder of the variant gave
\* for the body: its event under that variant, or its error.
Dispatched(variant, r) ==
    IF r.ok THEN cdec = Ok([variant |-> variant, event |-> r.val]) ELSE cdec = r

\* C14: Events::from_bytes fails with SliceTooShort on fewer than 2 bytes;
\* otherwise it reads byte 0 + 256 * byte 1 as the tag and hands the rest to
\* the PostEvent decoder for 0, the CommentEvent decoder for 1, the
\* ReactionEvent decoder for 2, and fails with UnknownEvent(t) for every
\* other tag t.
C14_EnvelopeDispatch ==
    (cvia = "rawevents" /\ cstep = "decoded") =>
        IF Len(cbytes) < 2 THEN cdec = Err("SliceTooShort")
        ELSE LET t == cbytes[1] + 256 * cbytes[2]
                 body == SubSeq(cbytes, 3, Len(cbytes))
             IN CASE t = 0 -> Dispatched("Post", PostFromBytes(body))
                  [] t = 1 -> Dispatched("Comment", CommentFromBytes(body))
                  [] t = 2 -> Dispatched("Reaction", ReactionFromBytes(body))
                  [] OTHER -> cdec = [ok |-> FALSE, err |-> "UnknownEvent",
                                      id |-> t]

C14_Witness ==
    /\ cvia = "rawevents"
    /\ cstep = "decoded"
    /\ Len(cbytes) = 3
    /\ cbytes[1] = 0
    /\ cbytes[2] = 1
    /\ cdec = [ok |-> FALSE, err |-> "UnknownEvent", id |-> 256]

\* Bytes the first k tags take in the encoding: one length byte and the tag.
RECURSIVE TagsSize(_, _)
TagsSize(tags, k) ==
    IF k = 0 THEN 0 ELSE TagsSize(tags, k - 1) + 1 + Len(tags[k])

\* C15: PostEvent::to_bytes is the content length as two bytes, low byte
\* first, the content, one byte with the number of tags, then per tag in
\* order one length byte and the tag; the empty post gives 00 00 00 and
\* "hi" with the tags "a", "b1" gives 02 00 68 69 02 01 61 02 62 31.
C15_PostLayout ==
    (cvia = "post" /\ cstep # "new") =>
        LET p == cev.event
            cl == Len(p.content)
            base == 3 + cl
        IN /\ Len(cbytes) = base + TagsSize(p.tags, Len(p.tags))
           /\ cbytes[1] = cl % 256
           /\ cbytes[2] = cl \div 256
           /\ SubSeq(cbytes, 3, 2 + cl) = p.content
           /\ cbytes[base] = Len(p.tags)
           /\ \A i \in 1..Len(p.tags) :
                LET off == base + TagsSize(p.tags, i - 1) IN
                  /\ cbytes[off + 1] = Len(p.tags[i])
                  /\ SubSeq(cbytes, off + 2, off + 1 + Len(p.tags[i])) = p.tags[i]
           /\ (p.content = <<>> /\ p.tags = <<>>) => cbytes = <<0, 0, 0>>
           /\ p = ExamplePost =>
                cbytes = <<2, 0, 104, 105, 2, 1, 97, 2, 98, 49>>

C15_Witness ==
    /\ cvia = "post"
    /\ cstep = "encoded"
    /\ cev.event = ExamplePost
    /\ cbytes = <<2, 0, 104, 105, 2, 1, 97, 2, 98, 49>>

\* ^[a-z0-9][a-z0-9-]*[a-z0-9]$ or ^[a-z0-9]$
CanonicalTag(str) ==
    LET lowerOrDigit(b) == b \in 97..122 \/ b \in 48..57 IN
    /\ Len(str) >= 1
    /\ lowerOrDigit(str[1])
    /\ lowerOrDigit(str[Len(str)])
    /\ \A i \in 1..Len(str) : lowerOrDigit(str[i]) \/ str[i] = 45

\* C16: Tag::new(s) returns a tag exactly when s is 1 to 255 bytes long and
\* in the canonical grammar, and the tag it returns holds s as it was given.
C16_TagGrammar ==
    (cvia = "tag" /\ cstep = "decoded") =>
        /\ cdec.some <=> (Len(cbytes) \in 1..255 /\ CanonicalTag(cbytes))
        /\ cdec.some => cdec.val = cbytes

C16_Witness ==
    /\ cvia = "tag"
    /\ cstep = "decoded"
    /\ cdec.some
    /\ Len(cbytes) = 255
    /\ cbytes[2] = 45

\* C17: Account::new succeeds for every name, signing key and password, the
\* empty password included, and Account::signing_key with the password the
\* account was created with returns the signing key it was created from.
C17_VaultRoundTrip ==
    /\ \A n \in AccountNames : \A k \in SigningKeys : \A pw \in Passwords :
         \A t \in Times : AccountNew(n, k, pw, t).ok
    /\ (vres.called /\ vres.password = vres.entry.password) =>
         vres.res = Ok(vres.entry.key)

C17_Witness ==
    /\ vres.called
    /\ vres.entry.password = <<112, 119>>
    /\ vres.password = <<112, 119>>
    /\ vres.entry.key.scalar[1] = 2
    /\ vres.res = Ok(vres.entry.key)

\* C18: Account::signing_key with any password other than the one the
\* account was created with returns an error, never a signing key.
C18_WrongPasswordFails ==
    (vres.called /\ vres.password # vres.entry.password) => ~vres.res.ok

C18_Witness ==
    /\ vres.called
    /\ vres.entry.password = <<112>>
    /\ vres.password = <<112, 119>>
    /\ ~vres.res.ok

\* C19 as stated: no two accounts of the vault that were created from
\* different signing keys are encrypted under the same derived key and
\* nonce.
C19_Original ==
    \A i \in 1..Len(accounts) : \A j \in 1..Len(accounts) :
        LET ci == accounts[i].account.signing_key.base64
            cj == accounts[j].account.signing_key.base64
        IN (ci.tag.key = cj.tag.key /\ ci.tag.nonce = cj.tag.nonce) =>
             accounts[i].key = accounts[j].key

\* C20 as stated: send_post, send_comment and send_reaction are publish
\* operations of Handler, and a call of any of them returns a result.
C20_Original ==
    \A op \in {"send_post", "send_comment", "send_reaction"} :
        /\ op \in SendOperations
        /\ (pubCount > 0 /\ pubCall.op = op) => pubResult.some

\* C20, amended: every call of a publish operation of Handler, which are
\* send_post and send_comment, signs exactly Events::to_bytes of the event
\* with the given key and hands exactly one message, for the handler's
\* address, to node.send_message; when Message::create fails the call
\* returns that SignatureError and hands over nothing.
C20_PublishOnce ==
    [][pubCount' # pubCount =>
         LET c == pubCall' IN
         /\ c.op \in {"send_post", "send_comment"}
         /\ c.op = "send_post" <=> c.event.variant = "Post"
         /\ IF c.fails
            THEN /\ outbox' = outbox
                 /\ pubResult' = Some(Err("SignatureError"))
            ELSE /\ outbox' = Append(outbox,
                      [address |-> HandlerAddress,
                       message |-> [data |-> EventsToBytes(c.event),
                                    signed_by |-> c.key]])
                 /\ pubResult' = Some(Ok("unit"))
      ]_vars

C20_Witness ==
    /\ pubCount = 3
    /\ Len(outbox) = 2
    /\ pubCall.fails
    /\ pubCall.op = "send_comment"
    /\ pubResult = Some(Err("SignatureError"))
    /\ outbox[1].message.data = <<0, 0, 2, 0, 104, 105, 2, 1, 97, 2, 98, 49>>

(***************************************************************************)
(* C27: the post decoder drops no input: whenever PostEvent::from_bytes(b) *)
(* succeeds, PostEvent::to_bytes of the result is b again, so no byte      *)
(* after the last declared tag was ignored.                                *)
(***************************************************************************)
C27_Original ==
    (cvia = "rawpost" /\ cstep = "decoded" /\ cdec.ok)
        => PostToBytes(cdec.val) = cbytes

(***************************************************************************)
(* C29: every decoder is total: handed any bytes, PostEvent::from_bytes,   *)
(* CommentEvent::from_bytes, ReactionEvent::from_bytes and                 *)
(* Events::from_bytes return a decoded event or a typed error and never    *)
(* abort on an out-of-bounds read.                                         *)
(***************************************************************************)
C29_Original ==
    (cvia \in {"rawpost", "rawcomment", "rawreaction", "rawevents"}
        /\ cstep = "decoded")
        => cdec # Panic

\* No two entries of the list name the same (block_hash, message_hash).
NoRepeat(list) ==
    \A i, j \in 1..Len(list) :
        (list[i].block_hash = list[j].block_hash
            /\ list[i].message_hash = list[j].message_hash) => i = j

(***************************************************************************)
(* C28: whatever Index::update calls were made, failed ones and ones after *)
(* a change of the storage included, no (block_hash, message_hash) pair    *)
(* occurs twice in posts and none occurs twice in comments.                *)
(***************************************************************************)
C28_Original ==
    /\ NoRepeat(index.posts)
    /\ NoRepeat(index.comments)

(***************************************************************************)
(* C23: PostIndex::read and CommentIndex::read give each dangling or       *)
(* misrouted lookup its own error: NoBlockInStorage(block_hash) when the   *)
(* indexed block is absent, NoMessageInStorage(message_hash) when the      *)
(* indexed message is absent, InvalidEventType(message_hash) when the      *)
(* message decodes to another variant, NoBlockWithMessage(ref) when the    *)
(* message a comment refers to is in no block.                             *)
(***************************************************************************)
C23_Original ==
    (rcall.kind # "none" /\ ~rcall.serr) =>
        LET p == rcall.entry
            want == IF rcall.kind = "post" THEN "Post" ELSE "Comment"
            blockThere == read_block(chain, p.block_hash).some
            msgThere == read_message(chain, p.message_hash).some
            ev == EventsFromBytes(MsgData(read_message(chain, p.message_hash).val))
        IN /\ ~blockThere => rcall.res = NoBlockInStorage(p.block_hash)
           /\ (blockThere /\ ~msgThere)
                 => rcall.res = NoMessageInStorage(p.message_hash)
           /\ (blockThere /\ msgThere /\ ev.ok /\ ev.val.variant # want)
                 => rcall.res = InvalidEventType(p.message_hash)
           /\ (blockThere /\ msgThere /\ ev.ok /\ ev.val.variant = want
                 /\ want = "Comment"
                 /\ ~find_message(chain, ev.val.event.ref_message_hash).some)
                 => rcall.res = NoBlockWithMessage(ev.val.event.ref_message_hash)

C22_Original ==
    /\ ~vtorn
    /\ vfile = AccountsWrite(accounts)

(***************************************************************************)
(* C21: Handler::update is the only writer of the shared index and holds   *)
(* the write lock for the whole call: while a reader holds the guard of    *)
(* Handler::index() the index is what it was when the guard was taken, and *)
(* no update call is under way.                                            *)
(***************************************************************************)
C21_WriterExcludesReaders ==
    qguard => (index = qseen /\ pc = "idle")

\* A reader holds the guard while the storage has a block the index has not
\* projected yet: an update is due and has to wait.
C21_Witness ==
    /\ qguard
    /\ attached
    /\ index.posts # <<>>
    /\ next_block(chain, index.last_block).some

(***************************************************************************)
(* C24: the QueryPosts handler holds the read lock only while it copies    *)
(* the entries: when it calls Handler::read_post for them the guard is     *)
(* released, so Handler::update is not kept waiting by the reads.          *)
(***************************************************************************)
C24_NoLockAcrossReads ==
    /\ qguard <=> qpc = "copy"
    /\ qpc = "resolve" => ~qguard

\* The handler has entries left to read while an update call is inside its
\* block loop.
C24_Witness ==
    /\ qpc = "resolve"
    /\ qcopy # <<>>
    /\ pc = "loop"

\* Every message of every block of the storage decodes.
Decodable(c) ==
    \A i \in 1..Len(c) : \A k \in 1..Len(BlockMsgs(c[i])) :
        EventsFromBytes(MsgData(BlockMsgs(c[i])[k])).ok

\* The index stands at the last block of the storage and holds an entry for
\* every Post and Comment message of the history.
AtTip ==
    /\ ~next_block(chain, index.last_block).some
    /\ chain # <<>> => index.last_block = HashOf(chain[Len(chain)])
    /\ Range(HistoryPosts(chain)) \subseteq Range(index.posts)
    /\ Range(HistoryComments(chain)) \subseteq Range(index.comments)

C30_Original ==
    \A i, j \in 1..Len(shown) :
        shown[i].message_hash = shown[j].message_hash => i = j

====
